---- MODULE Spec2Model ----
(***************************************************************************)
(* A model of aetherion's state-distribution core: the local event bus,    *)
(* the credential authenticator, the client-side receiver and the          *)
(* authenticated streaming server.  Each subsystem has its own variables   *)
(* and its own specification (SpecBus, SpecAuth, SpecRecv, SpecServer);    *)
(* a specification leaves the variables of the other subsystems alone.     *)
(***************************************************************************)
EXTENDS Integers, Sequences, FiniteSets, TLC

VARIABLES
    \* ---- EventBus (events/__init__.py) ----
    listeners,      \* EventBus._listeners: event type -> callbacks in registration order
    event_queue,    \* EventBus._event_queue: deque of events
    bus_pc,         \* where the bus's caller is: "idle", "drain", "dispatch"
    in_drain,       \* TRUE while emit_immediate was entered from process_events
    cur_event,      \* the event emit_immediate is dispatching
    cur_cbs,        \* the callbacks of the snapshot list(...) still to be invoked
    next_event_id,  \* identity of the next GameEvent constructed
    bus_log,        \* history: <<event id, callback>> invocations since the last process_events() call began
    drain_start,    \* history: the queue when the last process_events() call began
    drain_done,     \* history: TRUE from the return of process_events() to the next bus call
    propagated,     \* history: TRUE once an exception has escaped to the bus's caller
    \* ---- JWTAuthenticator (networking/jwt.py), exercised on its own ----
    now,            \* the wall clock, datetime.now(timezone.utc).timestamp()
    validate_call,  \* the last validate_token call: its token, the clock, its outcome
    perm_call,      \* the last check_action_permission call: its arguments and result
    \* ---- WebSocketReceiver and its connection (networking/receiver.py, connection.py) ----
    wire_in,        \* frames the server has written that websocket.recv() has not returned yet
    ws_open,        \* FALSE once the client's transport is closed or broken
    frames_sent,    \* how many frames the server has written to this transport
    stop_evt,       \* WebSocketReceiver._stop_evt
    recv_pc,        \* the receive thread: "none", "loop", "recv", "drain", "put", "evict", "put_again", "exited"
    recv_data,      \* _recv_loop's local `data`
    recv_target,    \* the queue _put_latest was called with
    state_queue,    \* ServerBeastConnection.state_queue
    control_queue,  \* ServerBeastConnection.control_queue
    error_queue,    \* ServerBeastConnection.error_queue
    last_state_response, \* ServerBeastConnection.last_state_response (0: None, else the payload's frame number)
    streaming_enabled,   \* ServerBeastConnection.streaming_enabled
    wait_call,      \* the last wait_for_next_world_state call and its outcome
    last_state_recv,\* history: the last state payload websocket.recv() returned (0: none)
    last_enq,       \* history: the last payload the receiver put into state_queue (0: none)
    observed,       \* history: the payloads wait_for_next_world_state took from state_queue
    evicted,        \* history: the payloads the receiver removed from state_queue
    alive_loops,    \* how many receive threads have been started and have not ended
    join_pc,        \* the caller of stop(join=True): "none", "joining" (no timeout), "joining_timeout"
    started,        \* history: a start() call has returned and stop() has not been called since
    online_pc,      \* the caller of server_online: "idle", or "waiting" inside its loop on control_queue
    server_online_flag,  \* ServerBeastConnection._server_online
    online_call,    \* the last server_online evaluation and its outcome
    subscribe_sent, \* how many subscribe_state requests the client has sent
    \* ---- AuthenticatedWebSocketServer and the world behind it (networking/websocket_server.py) ----
    ws_state,       \* each connection: "none" (not accepted yet), "open", "closed" (transport closed, handler not yet unwound), "gone"
    clients,        \* WebSocketGameServer.clients
    clients_entities_map,   \* WebSocketGameServer.clients_entities_map
    client_state_queues,    \* the keys of WebSocketGameServer._client_state_queues
    client_stream_tasks,    \* the keys of WebSocketGameServer._client_stream_tasks
    client_stream_cfg,      \* WebSocketGameServer._client_stream_cfg: connection -> dt (NoDt: no "dt" key)
    authenticated_sessions, \* AuthenticatedWebSocketServer.authenticated_sessions: connection -> role claim
    stream_q,       \* the asyncio.Queue q of the connection's producer/sender pair
    prod_pc,        \* the producer task: "none", "encoding", "sleeping", "put_wait", "cancelled", "failed"
    send_pc,        \* the sender task: "none", "waiting", "sending", "cancelled", "ended"
    prod_local,     \* the producer's closure: last_seen_id, compressed_data, poll_dt, the entity ids it encodes
    send_buf,       \* the sender's local buf
    dropped,        \* history: the unsent blob the step's drain discarded (NoBlob: none)
    connected_entities,     \* WorldInterface._connected_entities
    connected_entity_names, \* the keys of WorldInterface._connected_entity_names
    world_last_state,       \* WorldInterface.last_state_response
    connection_type,        \* WorldInterface.connection_type
    world_ver,      \* the simulation's state, as the number of updates applied
    next_entity,    \* the id world.create_entity gives the next entity; entities 1..next_entity-1 exist
    last_cmd,       \* the last command a handler applied to the simulation
    last_reply,     \* the structured message the step sent on each connection (NoReply: none)
    last_frame,     \* history: the last inbound frame handled and how far it got
    \* ---- PubSubTopicBroker and TopicReader (events/__init__.py) ----
    consumers,      \* PubSubTopicBroker._consumers
    broker_lock,    \* PubSubTopicBroker._lock: "free", or the thread inside publish_event
    reader_state,   \* each TopicReader: "unbuilt", "open", "closed"
    reader_topics,  \* TopicReader.topics
    reader_queue,   \* TopicReader._queue
    pub,            \* each producer thread's publish_event call: pc, topic, event, consumers still to visit
    next_pub,       \* the id of the next event published
    owed,           \* history: per reader, the events published while it was registered and matching
    drained,        \* history: per reader, everything its drain() calls returned, in order
    last_op         \* history: the call the latest step belongs to, and whether it repeats the step before

busVars == <<listeners, event_queue, bus_pc, in_drain, cur_event, cur_cbs,
             next_event_id, bus_log, drain_start, drain_done, propagated>>

authVars == <<now, validate_call, perm_call>>

recvVars == <<wire_in, ws_open, frames_sent, stop_evt, recv_pc, recv_data, recv_target,
              state_queue, control_queue, error_queue, last_state_response,
              streaming_enabled, wait_call, last_state_recv, last_enq, observed, evicted,
              alive_loops, join_pc, started, online_pc, server_online_flag, online_call,
              subscribe_sent>>

\* The caller of server_online
onlineVars == <<online_pc, server_online_flag, online_call>>

serverVars == <<ws_state, clients, clients_entities_map, client_state_queues,
                client_stream_tasks, client_stream_cfg, authenticated_sessions, stream_q,
                prod_pc, send_pc, prod_local, send_buf, connected_entities,
                connected_entity_names, world_last_state, connection_type, world_ver,
                next_entity, last_cmd, last_reply, last_frame, dropped>>

\* The per-connection streaming pair and its queue
streamVars == <<client_state_queues, client_stream_tasks, stream_q, prod_pc, send_pc,
                prod_local, send_buf>>

\* The entities registered for connections and with the world
entVars == <<clients_entities_map, connected_entities, connected_entity_names>>

\* The simulation
simVars == <<world_ver, next_entity, last_cmd, world_last_state, connection_type>>

brokerVars == <<consumers, broker_lock, reader_state, reader_topics, reader_queue, pub,
                next_pub, owed, drained, last_op>>

vars == <<busVars, authVars, recvVars, serverVars, brokerVars>>

NoEvent == [id |-> 0, type |-> "none"]

\* ---------------------------------------------------------------------
\* Sequence helpers
\* ---------------------------------------------------------------------
Range(s) == {s[i] : i \in 1..Len(s)}

RECURSIVE Remove(_, _)
\* list.remove(x): drops the first occurrence of x
Remove(s, x) ==
    IF s = <<>> THEN <<>>
    ELSE IF Head(s) = x THEN Tail(s)
    ELSE <<Head(s)>> \o Remove(Tail(s), x)

Prefix(s, n) == SubSeq(s, 1, IF n < Len(s) THEN n ELSE Len(s))

\* =====================================================================
\* EventBus
\* =====================================================================
MaxEvents == 3

EvTypes == {"A", "B"}

\* The callbacks user code registers: one that returns, one that raises an
\* Exception, one that emits a further event on the bus.
Callbacks == {"cb_ok", "cb_raise", "cb_emit"}

CallbackBehaviour(cb) ==
    CASE cb = "cb_ok" -> "return"
      [] cb = "cb_raise" -> "raise"
      [] cb = "cb_emit" -> "emit"

CallbackEmits == "B"

BusInit ==
    /\ listeners = [t \in EvTypes |-> <<>>]
    /\ event_queue = <<>>
    /\ bus_pc = "idle"
    /\ in_drain = FALSE
    /\ cur_event = NoEvent
    /\ cur_cbs = <<>>
    /\ next_event_id = 1
    /\ bus_log = <<>>
    /\ drain_start = <<>>
    /\ drain_done = FALSE
    /\ propagated = FALSE

\* EventBus.subscribe
subscribe(t, cb) ==
    /\ bus_pc = "idle"
    /\ listeners' = IF cb \in Range(listeners[t]) THEN listeners
                    ELSE [listeners EXCEPT ![t] = Append(@, cb)]
    /\ bus_log' = <<>>
    /\ drain_start' = <<>>
    /\ drain_done' = FALSE
    /\ UNCHANGED <<event_queue, bus_pc, in_drain, cur_event, cur_cbs,
                   next_event_id, propagated>>

\* EventBus.unsubscribe
unsubscribe(t, cb) ==
    /\ bus_pc = "idle"
    /\ listeners' = [listeners EXCEPT ![t] = Remove(@, cb)]
    /\ bus_log' = <<>>
    /\ drain_start' = <<>>
    /\ drain_done' = FALSE
    /\ UNCHANGED <<event_queue, bus_pc, in_drain, cur_event, cur_cbs,
                   next_event_id, propagated>>

\* EventBus.emit called by code outside a callback
emit(t) ==
    /\ bus_pc = "idle"
    /\ next_event_id <= MaxEvents
    /\ event_queue' = Append(event_queue, [id |-> next_event_id, type |-> t])
    /\ next_event_id' = next_event_id + 1
    /\ bus_log' = <<>>
    /\ drain_start' = <<>>
    /\ drain_done' = FALSE
    /\ UNCHANGED <<listeners, bus_pc, in_drain, cur_event, cur_cbs,
                   propagated>>

\* EventBus.clear
clear ==
    /\ bus_pc = "idle"
    /\ event_queue' = <<>>
    /\ bus_log' = <<>>
    /\ drain_start' = <<>>
    /\ drain_done' = FALSE
    /\ UNCHANGED <<listeners, bus_pc, in_drain, cur_event, cur_cbs,
                   next_event_id, propagated>>

\* EventBus.process_events: the call
process_events_call ==
    /\ bus_pc = "idle"
    /\ bus_pc' = "drain"
    /\ in_drain' = TRUE
    /\ bus_log' = <<>>
    /\ drain_start' = event_queue
    /\ drain_done' = FALSE
    /\ UNCHANGED <<listeners, event_queue, cur_event, cur_cbs, next_event_id, propagated>>

popright(q) == <<q[Len(q)], SubSeq(q, 1, Len(q) - 1)>>

\* deque.popleft(): <<the element, the rest>>
popleft(q) == <<Head(q), Tail(q)>>

\* EventBus.process_events: one test of `while self._event_queue`, and
\* the popleft and the entry into emit_immediate when it is not empty
process_events_loop ==
    /\ bus_pc = "drain"
    /\ IF event_queue = <<>>
       THEN /\ bus_pc' = "idle"
            /\ in_drain' = FALSE
            /\ drain_done' = TRUE
            /\ UNCHANGED <<event_queue, cur_event, cur_cbs>>
       ELSE /\ cur_event' = popleft(event_queue)[1]
            /\ event_queue' = popleft(event_queue)[2]
            /\ cur_cbs' = listeners[cur_event'.type]
            /\ bus_pc' = "dispatch"
            /\ UNCHANGED <<in_drain, drain_done>>
    /\ UNCHANGED <<listeners, next_event_id, bus_log, drain_start, propagated>>

\* EventBus.emit_immediate called directly by code outside a callback
emit_immediate_call(t) ==
    /\ bus_pc = "idle"
    /\ next_event_id <= MaxEvents
    /\ cur_event' = [id |-> next_event_id, type |-> t]
    /\ next_event_id' = next_event_id + 1
    /\ cur_cbs' = listeners[t]
    /\ bus_pc' = "dispatch"
    /\ in_drain' = FALSE
    /\ bus_log' = <<>>
    /\ drain_start' = <<>>
    /\ drain_done' = FALSE
    /\ UNCHANGED <<listeners, event_queue, propagated>>

catches_nothing(kind) == FALSE

\* `except Exception` around callback(event)
catches(kind) == kind = "Exception"

\* EventBus.emit_immediate: one iteration of the for loop
invoke_callback ==
    /\ bus_pc = "dispatch"
    /\ cur_cbs # <<>>
    /\ LET cb == Head(cur_cbs)
           beh == CallbackBehaviour(cb)
       IN  /\ beh = "emit" => next_event_id <= MaxEvents
           /\ bus_log' = Append(bus_log, <<cur_event.id, cb>>)
           /\ IF beh = "emit"
              THEN /\ event_queue' = Append(event_queue,
                                           [id |-> next_event_id, type |-> CallbackEmits])
                   /\ next_event_id' = next_event_id + 1
              ELSE UNCHANGED <<event_queue, next_event_id>>
           /\ IF beh = "raise" /\ ~catches("Exception")
              THEN \* the exception leaves emit_immediate and process_events
                   /\ bus_pc' = "idle"
                   /\ in_drain' = FALSE
                   /\ cur_cbs' = <<>>
                   /\ cur_event' = NoEvent
                   /\ propagated' = TRUE
              ELSE /\ cur_cbs' = Tail(cur_cbs)
                   /\ UNCHANGED <<bus_pc, in_drain, cur_event, propagated>>
    /\ UNCHANGED <<listeners, drain_start, drain_done>>

\* EventBus.emit_immediate: the for loop is exhausted, the call returns
emit_immediate_return ==
    /\ bus_pc = "dispatch"
    /\ cur_cbs = <<>>
    /\ bus_pc' = IF in_drain THEN "drain" ELSE "idle"
    /\ cur_event' = NoEvent
    /\ UNCHANGED <<listeners, event_queue, in_drain, cur_cbs,
                   next_event_id, bus_log, drain_start, drain_done, propagated>>


\* ---------------------------------------------------------------------
\* EventBus: properties
\* ---------------------------------------------------------------------
RECURSIVE ExpectedDispatch(_)
\* The invocations a FIFO, once-per-callback dispatch of the events of q makes
ExpectedDispatch(q) ==
    IF q = <<>> THEN <<>>
    ELSE [i \in 1..Len(listeners[Head(q).type]) |->
              <<Head(q).id, listeners[Head(q).type][i]>>]
         \o ExpectedDispatch(Tail(q))

Invocations(e, cb) == {i \in 1..Len(bus_log) : bus_log[i] = <<e.id, cb>>}

\* C8: after emits followed by one process_events() call, the callbacks
\* subscribed to each queued event's type have been invoked in emission
\* (FIFO) order, each exactly once per queued event, and no callback that
\* is not subscribed to an event's type has been invoked for it.
C8_FifoExactlyOnce ==
    drain_done =>
        /\ Len(bus_log) >= Len(ExpectedDispatch(drain_start))
        /\ Prefix(bus_log, Len(ExpectedDispatch(drain_start))) = ExpectedDispatch(drain_start)
        /\ \A i \in 1..Len(drain_start) : \A cb \in Callbacks :
              Cardinality(Invocations(drain_start[i], cb))
                  = IF cb \in Range(listeners[drain_start[i].type]) THEN 1 ELSE 0

\* C8 witness: a completed drain of at least two queued events, both of
\* which had subscribers
C8_Witness ==
    /\ drain_done
    /\ Len(drain_start) >= 2
    /\ listeners[drain_start[1].type] # <<>>
    /\ listeners[drain_start[2].type] # <<>>

\* C9 (as claimed): an event emitted by a callback while process_events()
\* is draining is not dispatched during that same process_events() call;
\* only events queued when the call began are.
C9_EmittedDuringDrainDeferred ==
    (in_drain \/ drain_done) =>
        \A i \in 1..Len(bus_log) :
            bus_log[i][1] \in {drain_start[k].id : k \in 1..Len(drain_start)}

\* A drain that cannot end: the callback that emits CallbackEmits is
\* subscribed to that very type, and an event of that type is queued or is
\* being dispatched with that callback still to run.  Each dispatch of such
\* an event appends another one, so `while self._event_queue` never finds
\* the queue empty although every callback returns.
DrainCannotEnd ==
    /\ in_drain
    /\ "cb_emit" \in Range(listeners[CallbackEmits])
    /\ \/ \E i \in 1..Len(event_queue) : event_queue[i].type = CallbackEmits
       \/ /\ bus_pc = "dispatch"
          /\ cur_event.type = CallbackEmits
          /\ "cb_emit" \in Range(cur_cbs)

\* No step of a drain that cannot end leads out of that condition, and the
\* call does not return in it
DrainCannotEndIsClosed ==
    [][DrainCannotEnd => (DrainCannotEnd' /\ ~drain_done')]_vars

\* C37 (as claimed): process_events() terminates whenever every callback
\* terminates, also when callbacks emit further events during the drain,
\* and the event queue is empty when it returns: the queue is empty at
\* every return, and no call reaches a state from which it cannot return.
C37_DrainTerminates ==
    /\ drain_done => event_queue = <<>>
    /\ ~DrainCannotEnd

\* C10: an error raised by a callback never reaches the caller of
\* emit_immediate / process_events; when emit_immediate has gone through
\* its callbacks, every callback registered for the event's type has been
\* invoked, in registration order, whatever any of them raised; and when
\* process_events() has returned every event queued at its start has been
\* dispatched to every one of its callbacks.
C10_RaisingCallbackIsolated ==
    /\ ~propagated
    /\ (bus_pc = "dispatch" /\ cur_cbs = <<>>) =>
          LET ls == listeners[cur_event.type]
          IN  /\ Len(bus_log) >= Len(ls)
              /\ \A i \in 1..Len(ls) :
                    bus_log[Len(bus_log) - Len(ls) + i] = <<cur_event.id, ls[i]>>
    /\ drain_done =>
          \A i \in 1..Len(drain_start) :
              \A cb \in Range(listeners[drain_start[i].type]) :
                  Invocations(drain_start[i], cb) # {}

\* C10 witness: a completed drain in which a callback raised, a callback
\* registered after it ran for the same event, and a later event was
\* dispatched
C10_Witness ==
    /\ drain_done
    /\ \E i, j, k \in 1..Len(bus_log) :
          /\ i < j /\ j < k
          /\ CallbackBehaviour(bus_log[i][2]) = "raise"
          /\ bus_log[j][1] = bus_log[i][1]
          /\ bus_log[k][1] # bus_log[i][1]

\* =====================================================================
\* JWTAuthenticator
\* =====================================================================
MaxTime == 3

\* PermissionLevel
PermissionLevels == {"guest", "user", "admin"}

\* The "role" claim a token may carry: the three roles, a role in another
\* case, an unknown role, a non-string value, or no role claim at all.
RoleClaims == {"guest", "user", "admin", "Admin", "root", "<int>", "<missing>"}

\* A token as the authenticator sees it: whether its signature verifies
\* under the server's key, its exp claim (if any) and its role claim.
Tokens == [sig : BOOLEAN, has_exp : BOOLEAN, exp : 0..MaxTime, role : RoleClaims]

AuthenticationError == [ok |-> FALSE, role |-> "<error>"]

\* jwt.decode(token, key, algorithms=[...]): TRUE when it returns the
\* payload; it raises InvalidTokenError for a signature that does not
\* verify and ExpiredSignatureError for an exp that has passed.
jwt_decode_ok(tok, t) ==
    /\ tok.sig
    /\ tok.has_exp => ~(tok.exp <= t)

validate_token_unverified(tok, t) ==
    IF tok.has_exp /\ t > tok.exp THEN AuthenticationError
    ELSE [ok |-> TRUE, role |-> tok.role]

\* JWTAuthenticator.validate_token at clock t: the claims, or AuthenticationError
validate_token(tok, t) ==
    IF ~jwt_decode_ok(tok, t) THEN AuthenticationError
    ELSE IF tok.has_exp /\ t > tok.exp THEN AuthenticationError
    ELSE [ok |-> TRUE, role |-> tok.role]

\* str.lower() on the role claims of the model
lower(r) == IF r = "Admin" THEN "admin" ELSE r

\* JWTAuthenticator.get_user_permission_level
get_user_permission_level(claims) ==
    LET role_value == IF claims.role = "<missing>" THEN "guest" ELSE claims.role
        role == IF role_value = "<int>" THEN "guest" ELSE lower(role_value)
    IN  IF role \in PermissionLevels THEN role ELSE "guest"

\* action_permissions in check_action_permission
action_permissions ==
    [a \in {"ping", "subscribe_entities", "subscribe_state", "unsubscribe_entities",
            "walk_left_entity", "walk_up_entity", "walk_right_entity",
            "walk_down_entity", "jump_entity", "make_entity_eat", "create_player",
            "action_and_state_request", "ai_metadata", "ai_decisions"} |->
        CASE a = "ping" -> "guest"
          [] a = "ai_decisions" -> "admin"
          [] OTHER -> "user"]

\* level_hierarchy in check_action_permission
level_hierarchy == [l \in PermissionLevels |->
                       CASE l = "guest" -> 0 [] l = "user" -> 1 [] l = "admin" -> 2]

required_level_fail_open(action_name) ==
    IF action_name \in DOMAIN action_permissions
    THEN action_permissions[action_name] ELSE "guest"

\* action_permissions.get(action_name, PermissionLevel.ADMIN)
required_level(action_name) ==
    IF action_name \in DOMAIN action_permissions
    THEN action_permissions[action_name] ELSE "admin"

\* JWTAuthenticator.check_action_permission
check_action_permission(action_name, permission_level) ==
    LET held == IF permission_level \in DOMAIN level_hierarchy
                THEN level_hierarchy[permission_level] ELSE 0
        needed == IF required_level(action_name) \in DOMAIN level_hierarchy
                  THEN level_hierarchy[required_level(action_name)] ELSE 2
    IN  held >= needed

\* The message types process_message has a branch for, the type action
\* apart, whose requests are authorized by their action_name
HandledTypes ==
    {"ping", "action_and_state_request", "ai_metadata", "subscribe_entities",
     "subscribe_state", "unsubscribe_state", "set_stream_rate"}

\* The action names the action methods of ServerBeastConnection send
FacadeActions ==
    {"walk_left_entity", "walk_up_entity", "walk_right_entity", "walk_down_entity",
     "jump_entity", "walk_left_up_entity", "walk_left_down_entity",
     "walk_right_up_entity", "walk_right_down_entity", "walk_left_jump_entity",
     "walk_right_jump_entity", "walk_up_jump_entity", "walk_down_jump_entity",
     "make_entity_eat"}

\* The action names requests carry: the names of the table, the message
\* types and action names of the protocol that the table does not list, and
\* names no handler knows.
ActionNames ==
    DOMAIN action_permissions
    \cup {"unsubscribe_state", "set_stream_rate", "action", "walk_left_up_entity",
          "bogus", "None"}

NoCall == [called |-> FALSE]

AuthInit ==
    /\ now = 0
    /\ validate_call = NoCall
    /\ perm_call = NoCall

\* The clock advances
Tick ==
    /\ now < MaxTime
    /\ now' = now + 1
    /\ UNCHANGED <<validate_call, perm_call>>

\* A call validate_token(tok)
ValidateCall(tok) ==
    /\ validate_call' = [called |-> TRUE, token |-> tok, at |-> now,
                         result |-> validate_token(tok, now)]
    /\ UNCHANGED <<now, perm_call>>

\* A call check_action_permission(action_name, permission_level)
PermissionCall(action_name, permission_level) ==
    /\ perm_call' = [called |-> TRUE, action |-> action_name, level |-> permission_level,
                     result |-> check_action_permission(action_name, permission_level)]
    /\ UNCHANGED <<now, validate_call>>


\* ---------------------------------------------------------------------
\* JWTAuthenticator: properties
\* ---------------------------------------------------------------------
\* The roles of the total order guest < user < admin that are at least r
AtLeast(r) ==
    CASE r = "guest" -> {"guest", "user", "admin"}
      [] r = "user" -> {"user", "admin"}
      [] r = "admin" -> {"admin"}

\* C5: check_action_permission(action, role) is true exactly when the role
\* is at least the role the action requires in guest < user < admin, and an
\* action the permission table does not list requires admin (guest and
\* user are refused).
C5_PermissionByRank ==
    perm_call.called =>
        /\ perm_call.action \in DOMAIN action_permissions =>
              (perm_call.result <=>
                   perm_call.level \in AtLeast(action_permissions[perm_call.action]))
        /\ perm_call.action \notin DOMAIN action_permissions =>
              (perm_call.result <=> perm_call.level = "admin")

\* C5 witness: a user refused for an action the table does not list
C5_Witness ==
    /\ perm_call.called
    /\ perm_call.action \notin DOMAIN action_permissions
    /\ perm_call.level = "user"
    /\ ~perm_call.result

\* C32: check_action_permission allows the role user every message type
\* the server has a handler for and every action name the client's action
\* methods send, ai_decisions apart; and a role that is allowed
\* subscribe_state is allowed unsubscribe_state and set_stream_rate.
C32_UserRoleCoversProtocol ==
    perm_call.called =>
        /\ (/\ perm_call.level = "user"
            /\ perm_call.action \in (HandledTypes \cup FacadeActions) \ {"ai_decisions"})
              => perm_call.result
        /\ check_action_permission("subscribe_state", perm_call.level) =>
              /\ check_action_permission("unsubscribe_state", perm_call.level)
              /\ check_action_permission("set_stream_rate", perm_call.level)

\* C6: validate_token fails with AuthenticationError for every credential
\* whose expires-at is in the past, whether or not its signature verifies,
\* and for every credential whose signature does not verify.
C6_ExpiredOrForgedRejected ==
    validate_call.called =>
        LET tok == validate_call.token
        IN  ((tok.has_exp /\ tok.exp < validate_call.at) \/ ~tok.sig)
                => validate_call.result = AuthenticationError

\* C6 witness: a correctly signed credential past its expires-at was refused
C6_Witness ==
    /\ validate_call.called
    /\ validate_call.token.sig
    /\ validate_call.token.has_exp
    /\ validate_call.token.exp < validate_call.at
    /\ validate_call.result = AuthenticationError

\* =====================================================================
\* WebSocketReceiver and the queues of ServerBeastConnection
\* =====================================================================
MaxFrames == 3

\* queue.Queue(maxsize=...) of ServerBeastConnection.__init__
STATE_QUEUE_MAXSIZE == 1

CONTROL_QUEUE_MAXSIZE == 32

ERROR_QUEUE_MAXSIZE == 32

\* What a frame on the wire holds: a compressed state blob carrying this
\* client's payload, one that decodes but carries no payload under this
\* client's name, one that does not decompress; a structured message with a
\* type (an error or another kind); a structured record without a type.
FrameKinds == {"state", "state_other", "state_corrupt", "control", "error", "untyped"}

\* The structured messages with a type: an error reply, a pong with
\* world_ready true, a pong with world_ready false, any other reply
TypedKinds == {"control", "error", "pong", "pong_not_ready"}

NoFrame == [n |-> 0, kind |-> "none"]

\* A state payload on the wire: whatever does not parse as a structured
\* message with a type
is_state_payload(frame) == frame.kind \notin TypedKinds

\* msgpack.unpackb(data) raises for a compressed blob (ExtraData)
unpack_raises(frame) == frame.kind \in {"state", "state_other", "state_corrupt"}

type_not_checked(frame) == TRUE

\* isinstance(obj, dict) and obj.get("type")
has_type(frame) == frame.kind \in TypedKinds

route_ignoring_unpack_error(frame) ==
    IF frame.kind = "error" THEN "error" ELSE "control"

\* The queue _recv_loop hands a received frame to
route(frame) ==
    IF ~unpack_raises(frame) /\ has_type(frame)
    THEN IF frame.kind = "error" THEN "error" ELSE "control"
    ELSE "state"

maxsize(q) ==
    CASE q = "state" -> STATE_QUEUE_MAXSIZE
      [] q = "control" -> CONTROL_QUEUE_MAXSIZE
      [] q = "error" -> ERROR_QUEUE_MAXSIZE

queue_of(q) ==
    CASE q = "state" -> state_queue
      [] q = "control" -> control_queue
      [] q = "error" -> error_queue

\* The three queues with queue q replaced by v
set_queue(q, v) ==
    /\ state_queue' = IF q = "state" THEN v ELSE state_queue
    /\ control_queue' = IF q = "control" THEN v ELSE control_queue
    /\ error_queue' = IF q = "error" THEN v ELSE error_queue

RecvInit ==
    /\ wire_in = <<>>
    /\ ws_open = TRUE
    /\ frames_sent = 0
    /\ stop_evt = FALSE
    /\ recv_pc = "none"
    /\ recv_data = NoFrame
    /\ recv_target = "none"
    /\ state_queue = <<>>
    /\ control_queue = <<>>
    /\ error_queue = <<>>
    /\ last_state_response = 0
    /\ streaming_enabled = FALSE
    /\ wait_call = NoCall
    /\ last_state_recv = 0
    /\ last_enq = 0
    /\ observed = {}
    /\ evicted = {}
    /\ alive_loops = 0
    /\ join_pc = "none"
    /\ started = FALSE
    /\ online_pc = "idle"
    /\ server_online_flag = FALSE
    /\ online_call = NoCall
    /\ subscribe_sent = 0

\* The server writes a frame to the connection
server_sends(kind) ==
    /\ ws_open
    /\ frames_sent < MaxFrames
    /\ frames_sent' = frames_sent + 1
    /\ wire_in' = Append(wire_in, [n |-> frames_sent + 1, kind |-> kind])
    /\ UNCHANGED <<ws_open, stop_evt, recv_pc, recv_data, recv_target, state_queue,
                   control_queue, error_queue, last_state_response, streaming_enabled,
                   wait_call, last_state_recv, last_enq, observed, evicted,
                   alive_loops, join_pc, started, onlineVars, subscribe_sent>>

\* The transport closes or breaks
transport_closes ==
    /\ ws_open
    /\ ws_open' = FALSE
    /\ UNCHANGED <<wire_in, frames_sent, stop_evt, recv_pc, recv_data, recv_target,
                   state_queue, control_queue, error_queue, last_state_response,
                   streaming_enabled, wait_call, last_state_recv, last_enq, observed, evicted,
                   alive_loops, join_pc, started, onlineVars, subscribe_sent>>

thread_never_alive == FALSE

\* self._thread and self._thread.is_alive()
thread_is_alive == recv_pc \notin {"none", "exited"}

\* WebSocketReceiver.start
start ==
    /\ IF thread_is_alive
       THEN UNCHANGED <<stop_evt, recv_pc, alive_loops>>
       ELSE /\ stop_evt' = FALSE
            /\ recv_pc' = "loop"
            /\ alive_loops' = alive_loops + 1
    /\ started' = TRUE
    /\ UNCHANGED <<wire_in, ws_open, frames_sent, recv_data, recv_target, state_queue,
                   control_queue, error_queue, last_state_response, streaming_enabled,
                   wait_call, last_state_recv, last_enq, observed, evicted,
                   join_pc, onlineVars, subscribe_sent>>

\* WebSocketReceiver.stop(join, timeout), up to its self._thread.join: the
\* caller is not already inside a stop(join=True)
stop(join, timeout) ==
    /\ join_pc = "none"
    /\ stop_evt' = TRUE
    /\ started' = FALSE
    /\ join_pc' = IF join /\ recv_pc # "none"
                  THEN (IF timeout = "None" THEN "joining" ELSE "joining_timeout")
                  ELSE "none"
    /\ UNCHANGED <<wire_in, ws_open, frames_sent, recv_pc, recv_data, recv_target,
                   state_queue, control_queue, error_queue, last_state_response,
                   streaming_enabled, wait_call, last_state_recv, last_enq, observed, evicted,
                   alive_loops, onlineVars, subscribe_sent>>

\* Thread.join(timeout) can return: the thread has ended, or the timeout
\* given has run out
join_can_return(pc) == recv_pc = "exited" \/ pc = "joining_timeout"

\* WebSocketReceiver.stop: self._thread.join returns and stop returns
stop_join_returns ==
    /\ join_pc # "none"
    /\ join_can_return(join_pc)
    /\ join_pc' = "none"
    /\ UNCHANGED <<wire_in, ws_open, frames_sent, stop_evt, recv_pc, recv_data, recv_target,
                   state_queue, control_queue, error_queue, last_state_response,
                   streaming_enabled, wait_call, last_state_recv, last_enq, observed, evicted,
                   alive_loops, started, onlineVars, subscribe_sent>>

loop_never_stops(evt) == TRUE

\* while not self._stop_evt.is_set()
loop_continues(evt) == ~evt

timeout_breaks(open) == "exited"

\* websocket.recv(timeout=1.0) raises: TimeoutError while the transport is
\* open, and the loop continues; any other exception once it is closed or
\* broken, and the loop breaks
after_recv_raises(open) == IF open THEN "loop" ELSE "exited"

get_nowait_keeps(q) == q

\* _put_latest on queue.Full: `q.get_nowait()` with queue.Empty ignored;
\* the queue it leaves
get_nowait(q) == IF q = <<>> THEN <<>> ELSE Tail(q)

\* A consumer thread takes the oldest item of queue q: Queue.get
consumer_get(q) ==
    /\ queue_of(q) # <<>>
    /\ set_queue(q, Tail(queue_of(q)))
    /\ UNCHANGED <<wire_in, ws_open, frames_sent, stop_evt, recv_pc, recv_data, recv_target,
                   last_state_response, streaming_enabled, wait_call, last_state_recv,
                   last_enq, observed, evicted, alive_loops, join_pc, started, onlineVars,
                   subscribe_sent>>

\* _recv_loop: one step of the receive thread.  Every queue operation is
\* one step (queue.Queue serialises them under its mutex); the code between
\* two of them touches only the thread's locals.
recv_loop_step ==
    /\ recv_pc \in {"loop", "recv", "drain", "put", "evict", "put_again"}
    /\ CASE recv_pc = "loop" ->
              \* while not self._stop_evt.is_set()
              /\ recv_pc' = IF loop_continues(stop_evt) THEN "recv" ELSE "exited"
              /\ UNCHANGED <<wire_in, recv_data, recv_target, state_queue, control_queue,
                             error_queue, last_state_recv, last_enq, evicted>>
         [] recv_pc = "recv" ->
              \* data = self.websocket.recv(timeout=1.0), then the routing
              IF wire_in # <<>>
              THEN /\ recv_data' = Head(wire_in)
                   /\ wire_in' = Tail(wire_in)
                   /\ recv_target' = route(Head(wire_in))
                   /\ recv_pc' = IF route(Head(wire_in)) = "state" THEN "drain" ELSE "put"
                   /\ last_state_recv' = IF is_state_payload(Head(wire_in))
                                         THEN Head(wire_in).n ELSE last_state_recv
                   /\ UNCHANGED <<state_queue, control_queue, error_queue, last_enq, evicted>>
              ELSE /\ recv_pc' = after_recv_raises(ws_open)
                   /\ UNCHANGED <<wire_in, recv_data, recv_target, state_queue,
                                  control_queue, error_queue, last_state_recv, last_enq, evicted>>
         [] recv_pc = "drain" ->
              \* _drain_queue(self.state_queue): one q.get_nowait()
              IF state_queue # <<>>
              THEN /\ state_queue' = Tail(state_queue)
                   /\ evicted' = evicted \cup {Head(state_queue).n}
                   /\ UNCHANGED <<wire_in, recv_pc, recv_data, recv_target, control_queue,
                                  error_queue, last_state_recv, last_enq>>
              ELSE /\ recv_pc' = "put"
                   /\ recv_target' = "state"
                   /\ UNCHANGED <<wire_in, recv_data, state_queue, control_queue,
                                  error_queue, last_state_recv, last_enq, evicted>>
         [] recv_pc = "put" ->
              \* _put_latest: q.put_nowait(item)
              IF Len(queue_of(recv_target)) < maxsize(recv_target)
              THEN /\ set_queue(recv_target, Append(queue_of(recv_target), recv_data))
                   /\ last_enq' = IF recv_target = "state" THEN recv_data.n ELSE last_enq
                   /\ recv_pc' = "loop"
                   /\ recv_data' = NoFrame
                   /\ recv_target' = "none"
                   /\ UNCHANGED <<wire_in, last_state_recv, evicted>>
              ELSE /\ recv_pc' = "evict"
                   /\ UNCHANGED <<wire_in, recv_data, recv_target, state_queue, control_queue,
                                  error_queue, last_state_recv, last_enq, evicted>>
         [] recv_pc = "evict" ->
              \* _put_latest, on queue.Full: q.get_nowait(), queue.Empty ignored
              /\ set_queue(recv_target, get_nowait(queue_of(recv_target)))
              /\ evicted' = IF recv_target = "state" /\ state_queue # <<>>
                            THEN evicted \cup {Head(state_queue).n} ELSE evicted
              /\ recv_pc' = "put_again"
              /\ UNCHANGED <<wire_in, recv_data, recv_target, last_state_recv, last_enq>>
         [] recv_pc = "put_again" ->
              \* _put_latest, on queue.Full: the second q.put_nowait(item)
              IF Len(queue_of(recv_target)) < maxsize(recv_target)
              THEN /\ set_queue(recv_target, Append(queue_of(recv_target), recv_data))
                   /\ last_enq' = IF recv_target = "state" THEN recv_data.n ELSE last_enq
                   /\ recv_pc' = "loop"
                   /\ recv_data' = NoFrame
                   /\ recv_target' = "none"
                   /\ UNCHANGED <<wire_in, last_state_recv, evicted>>
              ELSE \* queue.Full is raised: inside the control-plane try it is
                   \* swallowed and the frame falls through to the state path;
                   \* on the state path it ends the thread
                   /\ recv_pc' = IF recv_target = "state" THEN "exited" ELSE "drain"
                   /\ UNCHANGED <<wire_in, recv_data, recv_target, state_queue, control_queue,
                                  error_queue, last_state_recv, last_enq, evicted>>
    /\ alive_loops' = IF recv_pc' = "exited" THEN alive_loops - 1 ELSE alive_loops
    /\ UNCHANGED <<ws_open, frames_sent, stop_evt, last_state_response,
                   streaming_enabled, wait_call, observed, join_pc, started, onlineVars,
                   subscribe_sent>>

flag_not_read(flag) == FALSE

\* enable_state_stream: "or self.streaming_enabled" of its early return
already_enabled(flag) == flag

\* ServerBeastConnection.enable_state_stream (the connection is connected)
enable_state_stream ==
    /\ IF already_enabled(streaming_enabled)
       THEN UNCHANGED <<streaming_enabled, subscribe_sent>>
       ELSE \* self.websocket.send raises on a closed transport, before the flag is set
            /\ streaming_enabled' = ws_open
            /\ subscribe_sent' = IF ws_open THEN subscribe_sent + 1 ELSE subscribe_sent
    /\ UNCHANGED <<wire_in, ws_open, frames_sent, stop_evt, recv_pc, recv_data, recv_target,
                   state_queue, control_queue, error_queue, last_state_response,
                   wait_call, last_state_recv, last_enq, observed, evicted,
                   alive_loops, join_pc, started, onlineVars>>

pull_always(flag) == TRUE

\* wait_for_next_world_state on queue.Empty: "if not self.streaming_enabled"
pull_needed(flag) == ~flag

\* ServerBeastConnection.wait_for_next_world_state (the connection is connected)
wait_for_next_world_state ==
    /\ IF state_queue = <<>>
       THEN \* queue.Empty: pull unless streaming, return the cached state
            /\ wait_call' = [called |-> TRUE, got |-> 0,
                             requested |-> pull_needed(streaming_enabled) /\ ws_open,
                             raised |-> pull_needed(streaming_enabled) /\ ~ws_open,
                             before |-> last_state_response,
                             returned |-> last_state_response]
            /\ UNCHANGED <<state_queue, last_state_response, observed>>
       ELSE LET buf == Head(state_queue)
                new == IF buf.kind = "state" THEN buf.n ELSE last_state_response
            IN  /\ state_queue' = Tail(state_queue)
                /\ observed' = observed \cup {buf.n}
                /\ last_state_response' = new
                /\ wait_call' = [called |-> TRUE, got |-> buf.n, requested |-> FALSE,
                                 raised |-> FALSE, before |-> last_state_response,
                                 returned |-> new]
    /\ UNCHANGED <<wire_in, ws_open, frames_sent, stop_evt, recv_pc, recv_data, recv_target,
                   control_queue, error_queue, streaming_enabled,
                   last_state_recv, last_enq, evicted,
                   alive_loops, join_pc, started, onlineVars, subscribe_sent>>

\* ServerBeastConnection.server_online, up to the first control_queue.get:
\* the cached answer, or the ping and the start of the wait
server_online_call ==
    /\ online_pc = "idle"
    /\ IF server_online_flag
       THEN /\ online_call' = [called |-> TRUE, result |-> "True", error_received |-> FALSE]
            /\ UNCHANGED online_pc
       ELSE IF ws_open
       THEN /\ online_pc' = "waiting"
            /\ online_call' = [called |-> FALSE, ping_at |-> frames_sent]
       ELSE \* self.websocket.send raises on a closed transport
            /\ online_call' = [called |-> TRUE, result |-> "ConnectionClosed",
                               error_received |-> FALSE]
            /\ UNCHANGED online_pc
    /\ UNCHANGED <<wire_in, ws_open, frames_sent, stop_evt, recv_pc, recv_data, recv_target,
                   state_queue, control_queue, error_queue, last_state_response,
                   streaming_enabled, wait_call, last_state_recv, last_enq, observed, evicted,
                   alive_loops, join_pc, started, server_online_flag, subscribe_sent>>

\* An error frame sent after the ping of the current call has reached the
\* client's queues
error_answered ==
    \E i \in 1..Len(error_queue) : error_queue[i].n > online_call.ping_at

\* server_online: control_queue.get returns a message; expired tells whether
\* the deadline has passed when the loop condition is next evaluated
server_online_get(expired) ==
    /\ online_pc = "waiting"
    /\ control_queue # <<>>
    /\ LET msg == Head(control_queue)
       IN  /\ control_queue' = Tail(control_queue)
           /\ CASE msg.kind = "error" ->
                     /\ online_call' = [called |-> TRUE, result |-> "AuthenticationError",
                                        error_received |-> TRUE]
                     /\ online_pc' = "idle"
                     /\ UNCHANGED server_online_flag
                [] msg.kind \in {"pong", "pong_not_ready"} ->
                     /\ server_online_flag' = (msg.kind = "pong")
                     /\ online_call' = [called |-> TRUE,
                                        result |-> IF msg.kind = "pong" THEN "True" ELSE "False",
                                        error_received |-> error_answered]
                     /\ online_pc' = "idle"
                [] OTHER ->
                     /\ IF expired
                        THEN /\ online_call' = [called |-> TRUE, result |-> "False",
                                                error_received |-> error_answered]
                             /\ online_pc' = "idle"
                        ELSE UNCHANGED <<online_call, online_pc>>
                     /\ UNCHANGED server_online_flag
    /\ UNCHANGED <<wire_in, ws_open, frames_sent, stop_evt, recv_pc, recv_data, recv_target,
                   state_queue, error_queue, last_state_response,
                   streaming_enabled, wait_call, last_state_recv, last_enq, observed, evicted,
                   alive_loops, join_pc, started, subscribe_sent>>

\* server_online: control_queue.get raises queue.Empty at the deadline
server_online_timeout ==
    /\ online_pc = "waiting"
    /\ control_queue = <<>>
    /\ online_call' = [called |-> TRUE, result |-> "False", error_received |-> error_answered]
    /\ online_pc' = "idle"
    /\ UNCHANGED <<wire_in, ws_open, frames_sent, stop_evt, recv_pc, recv_data, recv_target,
                   state_queue, control_queue, error_queue, last_state_response,
                   streaming_enabled, wait_call, last_state_recv, last_enq, observed, evicted,
                   alive_loops, join_pc, started, server_online_flag, subscribe_sent>>

\* ---------------------------------------------------------------------
\* WebSocketReceiver: properties
\* ---------------------------------------------------------------------
\* The receive thread is between two frames (or not running)
RecvBetweenFrames == recv_pc \in {"none", "loop", "recv", "exited"}

\* C3: the client's state queue never holds more than one payload, and what
\* it holds is the payload most recently enqueued; once the receiver has
\* handled the state frames it received, the last one received is in the
\* queue unless the reader has already taken it; a payload that was
\* replaced in the queue before being read is never observed by a reader.
C3_StateQueueLatestOnly ==
    /\ Len(state_queue) <= 1
    /\ state_queue # <<>> => state_queue[1].n = last_enq
    /\ (RecvBetweenFrames /\ last_state_recv # 0) =>
          /\ last_enq = last_state_recv
          /\ state_queue # <<>> \/ last_state_recv \in observed
    /\ observed \cap evicted = {}

\* C3 witness: two state payloads were received with no read in between,
\* the first was replaced, and the reader then obtained the second
C3_Witness ==
    /\ Cardinality(evicted) >= 1
    /\ RecvBetweenFrames
    /\ wait_call.called
    /\ wait_call.got = last_state_recv
    /\ \E n \in evicted : n < wait_call.got

\* The receive thread holds a frame it has received and not yet put
RecvHoldsFrame == recv_pc \in {"drain", "put", "evict", "put_again"}

\* The queue a frame belongs to: a structured message with a type goes by
\* its type, anything else is a state payload
QueueFor(frame) ==
    IF frame.kind = "error" THEN "error"
    ELSE IF frame.kind \in TypedKinds THEN "control" ELSE "state"

\* C20: the receive thread lets go of a received frame only by putting it,
\* as it was received, at the end of one queue: the error queue for a
\* structured message whose type is error, the control queue for one of
\* another type, the state queue for any other frame; and it puts nothing
\* in the other two queues.
C20_EveryFrameToOneQueue ==
    /\ [][(recv_pc = "recv" /\ RecvHoldsFrame') => recv_data' = Head(wire_in)]_vars
    /\ [][(RecvHoldsFrame /\ ~RecvHoldsFrame') =>
             /\ recv_pc' = "loop"
             /\ QueueFor(recv_data) = "state" =>
                   /\ state_queue' # <<>>
                   /\ state_queue'[Len(state_queue')] = recv_data
                   /\ UNCHANGED <<control_queue, error_queue>>
             /\ QueueFor(recv_data) = "control" =>
                   /\ control_queue' # <<>>
                   /\ control_queue'[Len(control_queue')] = recv_data
                   /\ UNCHANGED <<state_queue, error_queue>>
             /\ QueueFor(recv_data) = "error" =>
                   /\ error_queue' # <<>>
                   /\ error_queue'[Len(error_queue')] = recv_data
                   /\ UNCHANGED <<state_queue, control_queue>>]_vars
    /\ [][(RecvHoldsFrame /\ RecvHoldsFrame') =>
             /\ Len(control_queue') <= Len(control_queue)
             /\ Len(error_queue') <= Len(error_queue)
             /\ Len(state_queue') <= Len(state_queue)]_vars

\* Three frames were received, a structured message of type error, one of
\* another type and a record without a type, and each queue holds one
C20_Witness ==
    /\ RecvBetweenFrames
    /\ Len(error_queue) = 1 /\ error_queue[1].kind = "error"
    /\ Len(control_queue) = 1 /\ control_queue[1].kind = "control"
    /\ Len(state_queue) = 1 /\ state_queue[1].kind = "untyped"

\* C22: a server_online call whose ping was answered by an error frame
\* with error_type authentication_error, received before the call returned,
\* raises AuthenticationError.
C22_AuthErrorRaised ==
    (online_call.called /\ online_call.error_received) =>
        online_call.result = "AuthenticationError"

\* C23: a call of wait_for_next_world_state never raises, whether a state is
\* queued or not and whether the transport is open or closed, and a call
\* that found no payload returns the cached state as it was.
C23_WaitNeverRaises ==
    wait_call.called =>
        /\ ~wait_call.raised
        /\ wait_call.got = 0 => wait_call.returned = wait_call.before

\* C24: over any sequence of enable_state_stream calls on a connected
\* client, one subscribe_state request is sent, by the first call made with
\* the transport open; a call made once streaming is enabled sends nothing
\* and leaves every field of the client as it was.
C24_SubscribeSentOnce ==
    /\ [](subscribe_sent <= 1)
    /\ [](streaming_enabled <=> subscribe_sent = 1)
    /\ [][enable_state_stream =>
             IF streaming_enabled
             THEN UNCHANGED recvVars
             ELSE ws_open => (subscribe_sent' = 1 /\ streaming_enabled')]_vars

\* The one request has been sent and a pushed state has been delivered
C24_Witness ==
    /\ subscribe_sent = 1
    /\ streaming_enabled
    /\ ws_open
    /\ state_queue # <<>>

\* C31: a call of wait_for_next_world_state is one step that can be taken
\* in every state; over an open transport it sends a pull request exactly
\* when the state queue is empty and streaming is not enabled, and it sends
\* none when it found a payload or when streaming is enabled; the cached
\* state changes only in a call that takes a payload which decodes and
\* holds an entry for this client.
C31_PullOnlyWhenIdle ==
    /\ [](ENABLED wait_for_next_world_state)
    /\ [][wait_call' # wait_call =>
             /\ wait_call'.requested =>
                   (state_queue = <<>> /\ ~streaming_enabled)
             /\ (state_queue = <<>> /\ ~streaming_enabled /\ ws_open) =>
                   wait_call'.requested
             /\ wait_call'.got = (IF state_queue = <<>> THEN 0 ELSE Head(state_queue).n)]_vars
    /\ [][last_state_response' # last_state_response =>
             /\ wait_call'.called
             /\ state_queue # <<>>
             /\ Head(state_queue).kind = "state"
             /\ wait_call'.got = Head(state_queue).n
             /\ last_state_response' = Head(state_queue).n]_vars

\* A call has just sent a pull request, after an earlier call had cached a
\* state
C31_Witness ==
    /\ wait_call.called
    /\ wait_call.requested
    /\ wait_call.got = 0
    /\ wait_call.returned # 0
    /\ ~streaming_enabled
    /\ ws_open

\* ---------------------------------------------------------------------
\* WebSocketReceiver: the life of the receive thread
\* ---------------------------------------------------------------------

\* A receive thread has been started and has not ended
LoopAlive == recv_pc \notin {"none", "exited"}

\* C21: whatever start() and stop() calls are made on a receiver, at most
\* one receive thread has been started and not ended, and every step that
\* takes a frame off the transport is the recv() of that thread's loop.
C21_SingleReceiveLoop ==
    /\ [](alive_loops = IF LoopAlive THEN 1 ELSE 0)
    /\ [][Len(wire_in') < Len(wire_in) =>
             /\ recv_pc = "recv"
             /\ wire_in' = Tail(wire_in)
             /\ recv_data' = Head(wire_in)]_vars

\* A second loop runs after the first one was stopped and ended: it holds
\* the second frame while the first frame is in its queue, and stop() has
\* been called again
C21_Witness ==
    /\ alive_loops = 1
    /\ recv_pc = "put"
    /\ recv_data.n = 2
    /\ stop_evt
    /\ Len(control_queue) + Len(error_queue) + Len(state_queue) = 1

\* C29: the receive thread goes from not started to running to ended; while
\* it runs, a recv() that times out sends it back to the head of its loop;
\* it ends only at the head of the loop once stop() was called, or in a
\* recv() that fails on a closed or broken transport.
C29_TimeoutRetriesFatalEnds ==
    /\ [][recv_pc = "none" => recv_pc' \in {"none", "loop"}]_vars
    /\ [][(recv_pc = "recv" /\ wire_in = <<>> /\ recv_pc' # "recv") =>
             /\ ws_open => recv_pc' = "loop"
             /\ ~ws_open => recv_pc' = "exited"]_vars
    /\ [][(recv_pc # "exited" /\ recv_pc' = "exited") =>
             \/ recv_pc = "loop" /\ stop_evt
             \/ recv_pc = "recv" /\ wire_in = <<>> /\ ~ws_open]_vars

\* The loop has ended on a transport error, with stop() never called since
\* it was started, after it had queued a frame
C29_Witness ==
    /\ recv_pc = "exited"
    /\ ~ws_open
    /\ ~stop_evt
    /\ alive_loops = 0
    /\ Len(control_queue) + Len(error_queue) + Len(state_queue) >= 1

\* C30: once stop() has been called while the receive thread runs, the
\* thread ends, and it ends the next time it is at the head of its loop; a
\* stop(join=True) without timeout returns only when the thread has ended.
C30_StopEndsLoop ==
    /\ [](stop_evt /\ LoopAlive => <>(recv_pc = "exited"))
    /\ [][(recv_pc = "loop" /\ stop_evt /\ recv_pc' # "loop") => recv_pc' = "exited"]_vars
    /\ [][(join_pc = "joining" /\ join_pc' = "none") => recv_pc = "exited"]_vars

\* The caller of stop(join=True) is still inside join and the thread, which
\* held a frame when stop was called, has just ended
C30_Witness ==
    /\ join_pc = "joining"
    /\ recv_pc = "exited"
    /\ stop_evt
    /\ ws_open
    /\ Len(control_queue) + Len(error_queue) + Len(state_queue) >= 1

\* C39 (as claimed): when a start() call has returned a receive loop is
\* running, and from then on it ends only after the next stop() call or on
\* a fatal transport error, also when start() was called right after
\* stop() while the loop stop() was meant for had not yet ended.
C39_StartedLoopKeepsRunning ==
    /\ [][started' /\ ~started => LoopAlive']_vars
    /\ [][(started /\ started' /\ LoopAlive /\ ~LoopAlive') =>
             (recv_pc = "recv" /\ wire_in = <<>> /\ ~ws_open)]_vars

\* The queue q after the step
queue_after(q) ==
    CASE q = "state" -> state_queue'
      [] q = "control" -> control_queue'
      [] q = "error" -> error_queue'

\* C40: with the receive loop the only producer of its queues and consumers
\* removing items at any moment, the second put_nowait of _put_latest
\* never finds the queue full; every _put_latest ends with the new item last
\* in its queue; the loop never ends in a queue operation; and no message
\* with a type is taken to the state path or put in the state queue.
C40_PutLatestNeverFull ==
    /\ [][(recv_pc = "put_again" /\ recv_pc' # "put_again") => recv_pc' = "loop"]_vars
    /\ [][(recv_pc \in {"put", "put_again"} /\ recv_pc' = "loop") =>
             /\ queue_after(recv_target) # <<>>
             /\ queue_after(recv_target)[Len(queue_after(recv_target))] = recv_data]_vars
    /\ [][(recv_pc # "exited" /\ recv_pc' = "exited") => recv_pc \in {"loop", "recv"}]_vars
    /\ [](recv_pc = "drain" => ~has_type(recv_data))
    /\ [](\A i \in 1..Len(state_queue) : ~has_type(state_queue[i]))

\* The control queue was full when the loop tried to put a reply; before its
\* get_nowait the consumers emptied the queue, and the loop is about to put
\* the reply again
C40_Witness ==
    /\ recv_pc = "put_again"
    /\ recv_target = "control"
    /\ has_type(recv_data)
    /\ control_queue = <<>>

\* =====================================================================
\* AuthenticatedWebSocketServer: connections, streaming pairs, the world
\* =====================================================================
MaxVer == 1

NumBlobIds == 4

MaxEntities == 2

\* FPS, the server's default frames per second
FPS == 30

\* asyncio.Queue(maxsize=1), the outgoing state queue of a connection
STREAM_QUEUE_MAXSIZE == 1

Conns == {"c1", "c2"}

\* WorldInstanceTypes a WorldInterface is constructed with
WorldInstanceTypes == {"SYNCHRONOUS", "SERVER"}

\* id(): the identities a bytes object can have
BlobIds == 1..NumBlobIds

NoBlob == [id |-> 0, ver |-> 0, ents |-> {}]

\* ---- numbers of the protocol: exact rationals <<numerator, denominator>>
RECURSIVE GCD(_, _)
GCD(a, b) == IF b = 0 THEN a ELSE GCD(b, a % b)

Abs(x) == IF x < 0 THEN -x ELSE x

\* n/d in lowest terms, d > 0
Rat(n, d) ==
    LET g == GCD(Abs(n), Abs(d))
        sgn == IF d < 0 THEN -1 ELSE 1
    IN  <<(sgn * n) \div g, (sgn * d) \div g>>

RLess(a, b) == a[1] * b[2] < b[1] * a[2]

unfloored(a, b) == b

\* max(a, b)
RMax(a, b) == IF RLess(a, b) THEN b ELSE a

\* 1.0 / x for x > 0
RInv(a) == Rat(a[2], a[1])

\* x / 1000.0
RDiv1000(a) == Rat(a[1], a[2] * 1000)

\* 0.001, the floor of every poll interval
MIN_DT == Rat(1, 1000)

\* No "dt" entry
NoDt == <<0, 1>>

\* A value of a request field: a number (int or float), or the field is
\* absent
Num(n, d) == [t |-> "num", v |-> Rat(n, d)]

Absent == [t |-> "absent", v |-> <<0, 1>>]

\* A value that is neither int nor float (a string, a list)
NotANumber == [t |-> "str", v |-> <<0, 1>>]

\* isinstance(v, (int, float)) and v > 0
is_positive_number(x) == x.t = "num" /\ x.v[1] > 0

\* isinstance(v, (int, float)) and v >= 0
is_nonnegative_number(x) == x.t = "num" /\ x.v[1] >= 0

\* ---- dict helpers: a dict is a function whose domain is its key set
dict_pop(dict, k) == [x \in (DOMAIN dict) \ {k} |-> dict[x]]

dict_set(dict, k, v) == [x \in (DOMAIN dict) \cup {k} |-> IF x = k THEN v ELSE dict[x]]

EmptyDict == [x \in {} |-> 0]

NoReply == [type |-> "none"]

NoFrameHandled == [handled |-> FALSE]

\* The step sends msg on connection c
reply(c, msg) == last_reply' = [x \in Conns |-> IF x = c THEN msg ELSE NoReply]

\* The step sends no structured message
no_reply == last_reply' = [x \in Conns |-> NoReply]

NoCmd == <<"none", 0>>

NoLocal == [last_seen_id |-> 0, compressed_data |-> NoBlob, poll_dt |-> NoDt, ents |-> {}]

\* A server with no connection yet, over a world constructed as one of types
ServerInit(types) ==
    /\ ws_state = [c \in Conns |-> "none"]
    /\ clients = {}
    /\ clients_entities_map = EmptyDict
    /\ client_state_queues = {}
    /\ client_stream_tasks = {}
    /\ client_stream_cfg = EmptyDict
    /\ authenticated_sessions = EmptyDict
    /\ stream_q = [c \in Conns |-> <<>>]
    /\ prod_pc = [c \in Conns |-> "none"]
    /\ send_pc = [c \in Conns |-> "none"]
    /\ prod_local = [c \in Conns |-> NoLocal]
    /\ send_buf = [c \in Conns |-> NoBlob]
    /\ connected_entities = {}
    /\ connected_entity_names = {}
    /\ world_last_state = NoBlob
    /\ connection_type \in types
    /\ world_ver = 0
    /\ next_entity = 2
    /\ last_cmd = NoCmd
    /\ last_reply = [c \in Conns |-> NoReply]
    /\ last_frame = NoFrameHandled
    /\ dropped = [c \in Conns |-> NoBlob]

\* WorldInterface.run_game_loop: update_world()
update_world ==
    /\ world_ver < MaxVer
    /\ world_ver' = world_ver + 1
    /\ last_frame' = NoFrameHandled
    /\ dropped' = [x \in Conns |-> NoBlob]
    /\ no_reply
    /\ UNCHANGED <<ws_state, clients, client_stream_cfg, authenticated_sessions, streamVars,
                   entVars, next_entity, last_cmd, world_last_state, connection_type>>

\* WebSocketGameServer.add_client
add_client(c) ==
    /\ clients' = clients \cup {c}
    /\ clients_entities_map' = IF c \in DOMAIN clients_entities_map
                               THEN clients_entities_map
                               ELSE dict_set(clients_entities_map, c, <<>>)

\* handle_client is entered for a new connection
handle_client_enter(c) ==
    /\ ws_state[c] = "none"
    /\ ws_state' = [ws_state EXCEPT ![c] = "open"]
    /\ add_client(c)
    /\ last_frame' = NoFrameHandled
    /\ dropped' = [x \in Conns |-> NoBlob]
    /\ no_reply
    /\ UNCHANGED <<client_stream_cfg, authenticated_sessions, streamVars, connected_entities,
                   connected_entity_names, simVars>>

\* A close frame is received or sent on an open connection: websocket.state
\* is State.CLOSING until the transport closes. No further frame reaches the
\* handler and a send raises ConnectionClosed.
close_handshake(c) ==
    /\ ws_state[c] = "open"
    /\ ws_state' = [ws_state EXCEPT ![c] = "closing"]
    /\ last_frame' = NoFrameHandled
    /\ dropped' = [x \in Conns |-> NoBlob]
    /\ no_reply
    /\ UNCHANGED <<clients, client_stream_cfg, authenticated_sessions, streamVars, entVars,
                   simVars>>

\* The transport of a connection closes; its handler has not run its
\* finally block yet
connection_lost(c) ==
    /\ ws_state[c] \in {"open", "closing"}
    /\ ws_state' = [ws_state EXCEPT ![c] = "closed"]
    /\ last_frame' = NoFrameHandled
    /\ dropped' = [x \in Conns |-> NoBlob]
    /\ no_reply
    /\ UNCHANGED <<clients, client_stream_cfg, authenticated_sessions, streamVars, entVars,
                   simVars>>

cancel_ignored(pc) == pc

\* Task.cancel() on a task: a task that has not ended takes CancelledError
\* at the await it is suspended in and returns
cancel(pc) == IF pc \in {"failed", "ended", "none"} THEN pc ELSE "cancelled"

\* The ids of the bytes objects still referenced by connection c's pair or
\* by the world
LiveIds(c) ==
    {b.id : b \in Range(stream_q[c])
                  \cup {prod_local[c].compressed_data, send_buf[c], world_last_state}} \ {0}

\* ---- the streaming pair of a connection (_subscribe_state's closures)

\* loop.run_in_executor(get_perception_responses): the bytes object the
\* encoding returns. A new object never has the identity of one that is
\* still referenced.
encoded_state(c, id) == [id |-> id, ver |-> world_ver, ents |-> prod_local[c].ents]

\* The producer's drain: get_nowait() until QueueEmpty
drain_keeps_queue(q) == q

drain(q) == <<>>

\* producer(): the awaited encoding completes and the loop body runs up to
\* its next await. The encoding raises when the perception of an entity
\* cannot be built; the task then ends with that exception.
producer_encoded(c, id, raises) ==
    /\ prod_pc[c] = "encoding"
    /\ id \in BlobIds \ LiveIds(c)
    /\ IF raises
       THEN /\ prod_pc' = [prod_pc EXCEPT ![c] = "failed"]
            /\ dropped' = [x \in Conns |-> NoBlob]
            /\ UNCHANGED <<stream_q, prod_local, world_last_state>>
       ELSE LET compressed_data == encoded_state(c, id)
                cur_id == compressed_data.id
                emptied == drain(stream_q[c])
            IN  /\ world_last_state' = IF connection_type = "SYNCHRONOUS"
                                       THEN compressed_data ELSE world_last_state
                /\ IF cur_id # prod_local[c].last_seen_id
                   THEN /\ dropped' = [x \in Conns |->
                                        IF x = c /\ Len(emptied) < Len(stream_q[c])
                                        THEN Head(stream_q[c]) ELSE NoBlob]
                        /\ prod_local' = [prod_local EXCEPT ![c].last_seen_id = cur_id,
                                                            ![c].compressed_data = compressed_data]
                        /\ IF Len(emptied) < STREAM_QUEUE_MAXSIZE
                           THEN /\ stream_q' = [stream_q EXCEPT ![c] = Append(emptied, compressed_data)]
                                /\ prod_pc' = [prod_pc EXCEPT ![c] = "sleeping"]
                           ELSE /\ stream_q' = [stream_q EXCEPT ![c] = emptied]
                                /\ prod_pc' = [prod_pc EXCEPT ![c] = "put_wait"]
                   ELSE /\ prod_local' = [prod_local EXCEPT ![c].compressed_data = compressed_data]
                        /\ prod_pc' = [prod_pc EXCEPT ![c] = "sleeping"]
                        /\ dropped' = [x \in Conns |-> NoBlob]
                        /\ UNCHANGED stream_q
    /\ last_frame' = NoFrameHandled
    /\ no_reply
    /\ UNCHANGED <<ws_state, clients, client_stream_cfg, authenticated_sessions,
                   client_state_queues, client_stream_tasks, send_pc, send_buf, entVars,
                   world_ver, next_entity, last_cmd, connection_type>>

\* producer(): the await it is suspended in returns: asyncio.sleep(dt), or
\* a q.put() that found the queue full and completes once there is room
producer_resumes(c) ==
    /\ prod_pc[c] \in {"sleeping", "put_wait"}
    /\ IF prod_pc[c] = "put_wait"
       THEN /\ Len(stream_q[c]) < STREAM_QUEUE_MAXSIZE
            /\ stream_q' = [stream_q EXCEPT ![c] = Append(@, prod_local[c].compressed_data)]
            /\ prod_pc' = [prod_pc EXCEPT ![c] = "sleeping"]
       ELSE /\ prod_pc' = [prod_pc EXCEPT ![c] = "encoding"]
            /\ UNCHANGED stream_q
    /\ last_frame' = NoFrameHandled
    /\ dropped' = [x \in Conns |-> NoBlob]
    /\ no_reply
    /\ UNCHANGED <<ws_state, clients, client_stream_cfg, authenticated_sessions,
                   client_state_queues, client_stream_tasks, send_pc, send_buf, prod_local,
                   entVars, simVars>>

\* producer(): the interval of its asyncio.sleep,
\* self._client_stream_cfg.get(websocket, {}).get("dt", poll_dt)
producer_sleep_dt(c) ==
    IF c \in DOMAIN client_stream_cfg /\ client_stream_cfg[c] # NoDt
    THEN client_stream_cfg[c]
    ELSE prod_local[c].poll_dt

\* sender(): buf = await q.get()
sender_gets(c) ==
    /\ send_pc[c] = "waiting"
    /\ stream_q[c] # <<>>
    /\ send_buf' = [send_buf EXCEPT ![c] = Head(stream_q[c])]
    /\ stream_q' = [stream_q EXCEPT ![c] = Tail(@)]
    /\ send_pc' = [send_pc EXCEPT ![c] = "sending"]
    /\ last_frame' = NoFrameHandled
    /\ dropped' = [x \in Conns |-> NoBlob]
    /\ no_reply
    /\ UNCHANGED <<ws_state, clients, client_stream_cfg, authenticated_sessions,
                   client_state_queues, client_stream_tasks, prod_pc, prod_local,
                   entVars, simVars>>

\* sender(): await websocket.send(buf) returns, or raises because the
\* transport is closed and the task ends
sender_sent(c) ==
    /\ send_pc[c] = "sending"
    /\ send_pc' = [send_pc EXCEPT ![c] = IF ws_state[c] = "open" THEN "waiting" ELSE "ended"]
    /\ last_frame' = NoFrameHandled
    /\ dropped' = [x \in Conns |-> NoBlob]
    /\ no_reply
    /\ UNCHANGED <<ws_state, clients, client_stream_cfg, authenticated_sessions,
                   client_state_queues, client_stream_tasks, stream_q, prod_pc, prod_local,
                   send_buf, entVars, simVars>>

\* ---- inbound frames

\* An element of a list, or an entity_id, that is not an int
NotAnInt == -1

\* The only entity of BeastEnum.AEOLUS in the world
AeolusId == 1

\* A decoded request: the fields the handlers read. "<absent>" is a key the
\* request does not have (or has with the value None).
Frame(token_present, token, type, action_name) ==
    [shape |-> "dict", token_present |-> token_present, token |-> token, type |-> type,
     action_name |-> action_name, fps |-> Absent, interval_ms |-> Absent,
     entities_is_list |-> TRUE, entities |-> <<>>, entity_id |-> NotAnInt,
     client_id |-> "<absent>"]

\* WorldInterface.world.get_entity_by_id finds the entity
entity_exists(eid) == eid >= 1 /\ eid < next_entity

\* add_client_entity on the list of one connection
add_client_entity(lst, entity_id) ==
    IF entity_id \in Range(lst) THEN lst ELSE Append(lst, entity_id)

\* The loop of process_subscribe_entities over the request's entities:
\* <<the connection's list, registered>>
RECURSIVE subscribe_loop(_, _, _)
subscribe_loop(lst, registered, entities) ==
    IF entities = <<>> THEN <<lst, registered>>
    ELSE LET eid == Head(entities)
         IN  IF eid # NotAnInt
             THEN subscribe_loop(add_client_entity(lst, eid), Append(registered, eid),
                                 Tail(entities))
             ELSE subscribe_loop(lst, registered, Tail(entities))

\* get_client_entities
get_client_entities(map, c) == IF c \in DOMAIN map THEN map[c] ELSE <<>>

\* process_ping_request
process_ping_request(c) ==
    /\ reply(c, [type |-> "pong"])
    /\ UNCHANGED <<entVars, streamVars, client_stream_cfg, next_entity, last_cmd>>

\* process_state_request
process_state_request(c) ==
    IF world_last_state # NoBlob
    THEN reply(c, [type |-> "state", blob |-> world_last_state])
    ELSE reply(c, [type |-> "error", error_type |-> "<absent>", message |-> "No state available"])

\* process_message, the action_and_state_request branch
process_action_and_state_request(c, f) ==
    /\ IF f.client_id = "Aeolus" /\ entity_exists(AeolusId)
       THEN /\ clients_entities_map' =
                   dict_set(clients_entities_map, c,
                            add_client_entity(get_client_entities(clients_entities_map, c), AeolusId))
            /\ connected_entities' = connected_entities \cup {AeolusId}
            /\ connected_entity_names' = connected_entity_names \cup {AeolusId}
       ELSE UNCHANGED entVars
    /\ process_state_request(c)
    /\ UNCHANGED <<streamVars, client_stream_cfg, next_entity, last_cmd>>

\* process_ai_metadata_request
process_ai_metadata_request(c) ==
    /\ reply(c, [type |-> "ai_metadata"])
    /\ UNCHANGED <<entVars, streamVars, client_stream_cfg, next_entity, last_cmd>>

\* process_subscribe_entities
process_subscribe_entities(c, f) ==
    LET done == IF f.entities_is_list
                THEN subscribe_loop(get_client_entities(clients_entities_map, c), <<>>, f.entities)
                ELSE <<get_client_entities(clients_entities_map, c), <<>> >>
        registered == done[2]
        map == IF registered # <<>> THEN dict_set(clients_entities_map, c, done[1])
               ELSE clients_entities_map
    IN  /\ clients_entities_map' = map
        /\ connected_entities' = connected_entities \cup Range(registered)
        /\ reply(c, [type |-> "subscribe_entities_ack",
                     count |-> Len(get_client_entities(map, c))])
        /\ UNCHANGED <<connected_entity_names, streamVars, client_stream_cfg, next_entity,
                       last_cmd>>

\* poll_dt in _subscribe_state
subscribe_poll_dt(f) ==
    IF is_positive_number(f.fps)
    THEN RMax(MIN_DT, RInv(RMax(Rat(1, 1), f.fps.v)))
    ELSE IF is_nonnegative_number(f.interval_ms)
         THEN RMax(MIN_DT, RDiv1000(f.interval_ms.v))
         ELSE RMax(MIN_DT, RInv(Rat(IF 1 > FPS THEN 1 ELSE FPS, 1)))

never_streaming(c) == FALSE

\* websocket in self._client_stream_tasks
already_streaming(c) == c \in client_stream_tasks

\* _subscribe_state
subscribe_state(c, f) ==
    IF already_streaming(c)
    THEN /\ reply(c, [type |-> "subscribe_state_ack", status |-> "already_active", dt |-> NoDt])
         /\ UNCHANGED <<entVars, streamVars, client_stream_cfg, next_entity, last_cmd>>
    ELSE LET poll_dt == subscribe_poll_dt(f)
         IN  /\ client_state_queues' = client_state_queues \cup {c}
             /\ stream_q' = [stream_q EXCEPT ![c] = <<>>]
             /\ client_stream_cfg' = dict_set(client_stream_cfg, c, poll_dt)
             /\ prod_local' = [prod_local EXCEPT ![c] =
                                  [last_seen_id |-> 0, compressed_data |-> NoBlob,
                                   poll_dt |-> poll_dt,
                                   ents |-> Range(clients_entities_map[c])]]
             /\ send_buf' = [send_buf EXCEPT ![c] = NoBlob]
             /\ prod_pc' = [prod_pc EXCEPT ![c] = "encoding"]
             /\ send_pc' = [send_pc EXCEPT ![c] = "waiting"]
             /\ client_stream_tasks' = client_stream_tasks \cup {c}
             /\ reply(c, [type |-> "subscribe_state_ack", status |-> "<absent>", dt |-> poll_dt])
             /\ UNCHANGED <<entVars, next_entity, last_cmd>>

\* _unsubscribe_state up to its check of websocket.state
unsubscribe_state_cleanup(c) ==
    /\ connected_entities' = connected_entities \ Range(clients_entities_map[c])
    /\ connected_entity_names' = connected_entity_names \ Range(clients_entities_map[c])
    /\ client_stream_tasks' = client_stream_tasks \ {c}
    /\ IF c \in client_stream_tasks
       THEN /\ prod_pc' = [prod_pc EXCEPT ![c] = cancel(@)]
            /\ send_pc' = [send_pc EXCEPT ![c] = cancel(@)]
       ELSE UNCHANGED <<prod_pc, send_pc>>
    /\ client_state_queues' = client_state_queues \ {c}
    /\ UNCHANGED <<stream_q, prod_local, send_buf>>

\* _unsubscribe_state, called for an unsubscribe_state request
unsubscribe_state(c) ==
    /\ unsubscribe_state_cleanup(c)
    /\ IF ws_state[c] = "closed"
       THEN no_reply
       ELSE reply(c, [type |-> "unsubscribe_state_ack"])
    /\ UNCHANGED <<clients_entities_map, client_stream_cfg, next_entity, last_cmd>>

\* process_message, the set_stream_rate branch
set_stream_rate(c, f) ==
    LET cfg == IF c \in DOMAIN client_stream_cfg THEN client_stream_cfg[c] ELSE NoDt
        new_dt == IF is_positive_number(f.fps) THEN RInv(f.fps.v)
                  ELSE IF is_nonnegative_number(f.interval_ms) THEN RDiv1000(f.interval_ms.v)
                  ELSE NoDt
        has_new_dt == is_positive_number(f.fps) \/ is_nonnegative_number(f.interval_ms)
        dt == IF has_new_dt THEN RMax(MIN_DT, new_dt) ELSE cfg
    IN  /\ client_stream_cfg' = dict_set(client_stream_cfg, c, dt)
        /\ reply(c, [type |-> "set_stream_rate_ack", dt |-> dt])
        /\ UNCHANGED <<entVars, streamVars, next_entity, last_cmd>>

\* The action names whose branch of process_action applies one command to
\* one entity
EntityCommands == {"walk_left_entity", "walk_up_entity", "walk_right_entity",
                   "walk_down_entity", "jump_entity", "make_entity_eat"}

\* process_action
process_action(c, f) ==
    CASE f.action_name \in EntityCommands ->
            \* get_entity_from_request raises ValueError: nothing is applied
            /\ IF f.entity_id # NotAnInt /\ entity_exists(f.entity_id)
               THEN last_cmd' = <<f.action_name, f.entity_id>>
               ELSE UNCHANGED last_cmd
            /\ no_reply
            /\ UNCHANGED <<entVars, streamVars, client_stream_cfg, next_entity>>
      [] f.action_name = "ai_decisions" ->
            /\ last_cmd' = <<"ai_decisions", 0>>
            /\ no_reply
            /\ UNCHANGED <<entVars, streamVars, client_stream_cfg, next_entity>>
      [] f.action_name = "create_player" ->
            /\ next_entity <= MaxEntities
            /\ next_entity' = next_entity + 1
            /\ clients_entities_map' =
                   dict_set(clients_entities_map, c,
                            add_client_entity(get_client_entities(clients_entities_map, c),
                                              next_entity))
            /\ connected_entities' = connected_entities \cup {next_entity}
            /\ reply(c, [type |-> "player_created", entity_id |-> next_entity])
            /\ UNCHANGED <<connected_entity_names, streamVars, client_stream_cfg, last_cmd>>
      [] OTHER ->
            /\ reply(c, [type |-> "error", error_type |-> "<absent>", message |-> "Unknown action"])
            /\ UNCHANGED <<entVars, streamVars, client_stream_cfg, next_entity, last_cmd>>

\* WebSocketGameServer.process_message: the dispatch on the request's type
process_message(c, f) ==
    CASE f.type = "ping" -> process_ping_request(c)
      [] f.type = "action_and_state_request" -> process_action_and_state_request(c, f)
      [] f.type = "ai_metadata" -> process_ai_metadata_request(c)
      [] f.type = "subscribe_entities" -> process_subscribe_entities(c, f)
      [] f.type = "subscribe_state" -> subscribe_state(c, f)
      [] f.type = "unsubscribe_state" -> unsubscribe_state(c)
      [] f.type = "set_stream_rate" -> set_stream_rate(c, f)
      [] f.type = "action" -> process_action(c, f)
      [] OTHER ->
            /\ reply(c, [type |-> "error", error_type |-> "<absent>", message |-> "Unknown type"])
            /\ UNCHANGED <<entVars, streamVars, client_stream_cfg, next_entity, last_cmd>>

\* ---- AuthenticatedWebSocketServer

\* The fields of a request that reach authentication, authorization and the
\* dispatch
envelope(f) == [shape |-> f.shape, token_present |-> f.token_present, token |-> f.token,
                type |-> f.type, action_name |-> f.action_name]

\* send_error_response
send_error_response(c, error_message, error_type) ==
    reply(c, [type |-> "error", error_type |-> error_type, message |-> error_message])

\* authenticate_request: the claims, or None after the error response
authenticate_request(f) ==
    IF ~f.token_present THEN AuthenticationError ELSE validate_token(f.token, now)

\* action_name in process_authenticated_message: the request's action_name,
\* its type when it has none, str(None) when it has neither
declared_action(f) ==
    IF f.action_name # "<absent>" THEN f.action_name
    ELSE IF f.type # "<absent>" THEN f.type ELSE "None"

check_action_authorization_skipped(action_name, user_claims) == TRUE

\* check_action_authorization: TRUE when the action is allowed
check_action_authorization(action_name, user_claims) ==
    check_action_permission(action_name, get_user_permission_level(user_claims))

\* AuthenticatedWebSocketServer.process_message = process_authenticated_message
process_authenticated_message(c, f) ==
    LET user_claims == authenticate_request(f)
        action_name == declared_action(f)
    IN  IF ~user_claims.ok
        THEN /\ send_error_response(c, IF f.token_present THEN "Invalid or expired token"
                                       ELSE "No authentication token provided",
                                    "authentication_error")
             /\ last_frame' = [handled |-> TRUE, conn |-> c, frame |-> envelope(f), at |-> now,
                               dispatched |-> FALSE]
             /\ UNCHANGED <<authenticated_sessions, entVars, streamVars, client_stream_cfg,
                            next_entity, last_cmd>>
        ELSE /\ authenticated_sessions' = dict_set(authenticated_sessions, c, user_claims)
             /\ IF ~check_action_authorization(action_name, user_claims)
                THEN /\ send_error_response(c, "Insufficient permissions", "authorization_error")
                     /\ last_frame' = [handled |-> TRUE, conn |-> c, frame |-> envelope(f), at |-> now,
                                       dispatched |-> FALSE]
                     /\ UNCHANGED <<entVars, streamVars, client_stream_cfg, next_entity,
                                    last_cmd>>
                ELSE /\ process_message(c, f)
                     /\ last_frame' = [handled |-> TRUE, conn |-> c, frame |-> envelope(f), at |-> now,
                                       dispatched |-> TRUE]

except_around_loop(st) == "closed"

\* handle_client: the except clauses inside the loop over the frames log
\* the exception; the connection stays as it is and the loop takes the next
\* frame
except_in_loop(st) == st

\* handle_client: one iteration of its loop over the inbound frames. A frame
\* that is not msgpack, or whose handling raises (a decoded value without
\* .get), is logged and skipped.
handle_client_frame(c, f) ==
    /\ ws_state[c] = "open"
    /\ IF f.shape = "dict"
       THEN /\ process_authenticated_message(c, f)
            /\ UNCHANGED ws_state
       ELSE /\ last_frame' = [handled |-> TRUE, conn |-> c, frame |-> envelope(f), at |-> now,
                              dispatched |-> FALSE]
            /\ no_reply
            /\ ws_state' = [ws_state EXCEPT ![c] = except_in_loop(@)]
            /\ UNCHANGED <<authenticated_sessions, entVars, streamVars, client_stream_cfg,
                           next_entity, last_cmd>>
    /\ dropped' = [x \in Conns |-> NoBlob]
    /\ UNCHANGED <<clients, world_ver, world_last_state, connection_type>>

\* handle_client: the loop over the frames ends and the finally block runs.
\* The loop ends by ConnectionClosed once the transport has closed; any other
\* exception (the cancellation of the handler's task included) ends it in
\* whatever state the transport is in. In _unsubscribe_state the
\* acknowledgement is skipped when the state is CLOSED, is sent when it is
\* OPEN, and raises ConnectionClosed when it is CLOSING: the exception leaves
\* the finally block before remove_client.
handle_client_exit(c) ==
    /\ ws_state[c] \in {"open", "closing", "closed"}
    /\ unsubscribe_state_cleanup(c)
    /\ client_stream_cfg' = dict_pop(client_stream_cfg, c)
    /\ IF ws_state[c] = "open"
       THEN reply(c, [type |-> "unsubscribe_state_ack"])
       ELSE no_reply
    /\ IF ws_state[c] = "closing"
       THEN UNCHANGED <<clients, clients_entities_map, authenticated_sessions>>
       ELSE /\ clients' = clients \ {c}
            /\ clients_entities_map' = dict_pop(clients_entities_map, c)
            /\ authenticated_sessions' = dict_pop(authenticated_sessions, c)
    /\ ws_state' = [ws_state EXCEPT ![c] = "gone"]
    /\ last_frame' = NoFrameHandled
    /\ dropped' = [x \in Conns |-> NoBlob]
    /\ UNCHANGED simVars

\* ---- the requests and connections of the server specification
ServerConns == {"c1"}

LiveToken(role) == [sig |-> TRUE, has_exp |-> TRUE, exp |-> MaxTime, role |-> role]

\* What a request carries as its token: nothing, a live token of each
\* role, an expired token
Credentials ==
    {<<FALSE, LiveToken("guest")>>}
    \cup {<<TRUE, LiveToken(r)>> : r \in PermissionLevels}
    \cup {<<TRUE, [LiveToken("admin") EXCEPT !.exp = 0]>>}

\* The credential of an administrator
AdminCredentials == {<<TRUE, LiveToken("admin")>>}

\* Requests whose handler reads nothing but the type; an unsubscribe_state
\* request that declares an action_name of its own
PlainRequests(creds) ==
    {Frame(cr[1], cr[2], type, "<absent>") :
        cr \in creds,
        type \in {"ping", "ai_metadata", "unsubscribe_state", "<absent>"}}
    \cup {Frame(cr[1], cr[2], "unsubscribe_state", "ping") : cr \in creds}

StateRequests(creds) ==
    {[Frame(cr[1], cr[2], "action_and_state_request", "<absent>") EXCEPT !.client_id = cid] :
        cr \in creds, cid \in {"Aeolus", "<absent>"}}

\* subscribe_entities requests, with and without an action_name of their own
SubscribeEntitiesRequests(creds, lists) ==
    {[Frame(cr[1], cr[2], "subscribe_entities", an) EXCEPT !.entities = ents] :
        cr \in creds, an \in {"<absent>", "ping"}, ents \in lists}
    \cup {[Frame(cr[1], cr[2], "subscribe_entities", "<absent>")
              EXCEPT !.entities_is_list = FALSE] : cr \in creds}

StreamRequests(creds, rates) ==
    {[Frame(cr[1], cr[2], type, "<absent>") EXCEPT !.fps = r[1], !.interval_ms = r[2]] :
        cr \in creds, type \in {"subscribe_state", "set_stream_rate"}, r \in rates}

\* The fps / interval_ms pairs of the rate specification: each field absent,
\* zero, negative, not a number, above 1000 per second, and ordinary values
Rates ==
    {<<fps, Absent>> : fps \in {Absent, Num(0, 1), Num(-5, 1), NotANumber, Num(20, 1),
                                Num(2000, 1), Num(1, 2)}}
    \cup {<<Absent, ms>> : ms \in {Num(0, 1), Num(-1, 1), NotANumber, Num(50, 1), Num(1, 2)}}
    \cup {<<Num(0, 1), Num(0, 1)>>, <<NotANumber, Num(50, 1)>>, <<Num(20, 1), Num(0, 1)>>}

\* The fps values the client changes its rate to
ClientRates == {Num(10, 1), Num(60, 1)}

\* ServerBeastConnection.enable_state_stream(fps): the request it sends
enable_state_stream_request(fps) ==
    [Frame(TRUE, LiveToken("user"), "subscribe_state", "<absent>")
        EXCEPT !.fps = IF is_positive_number(fps) THEN fps ELSE Absent,
               !.client_id = "Aeolus"]

\* ServerBeastConnection.set_stream_rate(fps, interval_ms): the request it
\* sends
set_stream_rate_request(fps, interval_ms) ==
    [Frame(TRUE, LiveToken("user"), "set_stream_rate", "<absent>")
        EXCEPT !.fps = IF is_positive_number(fps) THEN fps ELSE Absent,
               !.interval_ms = IF is_nonnegative_number(interval_ms) THEN interval_ms ELSE Absent,
               !.client_id = "Aeolus"]

\* The requests of a client that enables streaming at 20 per second and
\* then changes its rate
ClientStreamRequests ==
    {enable_state_stream_request(Num(20, 1))}
    \cup {set_stream_rate_request(fps, Absent) : fps \in ClientRates}

\* action requests: the names of process_action's branches and a name it
\* does not know; an entity that exists and an entity_id that is no int
ActionRequests(creds) ==
    {[Frame(cr[1], cr[2], "action", an) EXCEPT !.entity_id = 1] :
        cr \in creds,
        an \in {"<absent>", "walk_left_entity", "ai_decisions", "create_player",
                "walk_left_up_entity"}}
    \cup {Frame(cr[1], cr[2], "action", "walk_left_entity") : cr \in creds}

\* Frames that are not a msgpack map
MalformedFrames ==
    {[Frame(FALSE, LiveToken("guest"), "<absent>", "<absent>") EXCEPT !.shape = sh] :
        sh \in {"not_msgpack", "not_dict"}}

\* ---- the client and the server together

\* The connection behind self.websocket of the client: the one made last
current_connection == IF ws_state["c2"] # "none" THEN "c2" ELSE "c1"

\* ServerBeastConnection.connect: a new transport, accepted by the server,
\* and a new receiver on the client's three queues, started. The flags and
\* queues of the client are left as they are.
connect(c) ==
    /\ c = "c1" \/ ws_state["c1"] # "none"
    /\ handle_client_enter(c)
    /\ ws_open' = TRUE
    /\ wire_in' = <<>>
    /\ stop_evt' = FALSE
    /\ recv_pc' = "loop"
    /\ recv_data' = NoFrame
    /\ recv_target' = "none"
    /\ alive_loops' = alive_loops + 1
    /\ started' = TRUE
    /\ UNCHANGED <<frames_sent, state_queue, control_queue, error_queue, last_state_response,
                   streaming_enabled, wait_call, last_state_recv, last_enq, observed, evicted,
                   join_pc, onlineVars, subscribe_sent>>

\* request_world_state: the request it sends
request_world_state_request ==
    [Frame(TRUE, LiveToken("user"), "action_and_state_request", "<absent>")
        EXCEPT !.client_id = "Aeolus"]

\* A request of the client as the server sees it: verifies tells whether the
\* token of the client's provider verifies under the server's key
as_received(f, verifies) == [f EXCEPT !.token.sig = verifies]

\* enable_state_stream, and the server handling the request it sent
client_enables_stream(verifies) ==
    /\ ws_state[current_connection] = "open"
    /\ enable_state_stream
    /\ IF subscribe_sent' # subscribe_sent
       THEN handle_client_frame(current_connection,
                                as_received(enable_state_stream_request(Num(20, 1)), verifies))
       ELSE UNCHANGED serverVars

\* wait_for_next_world_state, and the server handling the pull request if
\* one was sent
client_waits(verifies) ==
    /\ ws_state[current_connection] = "open"
    /\ wait_for_next_world_state
    /\ IF wait_call'.requested
       THEN handle_client_frame(current_connection,
                                as_received(request_world_state_request, verifies))
       ELSE UNCHANGED serverVars

\* ---------------------------------------------------------------------
\* Streaming pair: properties
\* ---------------------------------------------------------------------

\* The producer of connection c has just enqueued: its step ran the drain
\* and the put of a newly encoded blob
JustEnqueued(c) ==
    /\ prod_pc[c] = "encoding"
    /\ prod_pc'[c] # "failed"
    /\ prod_local'[c].last_seen_id # prod_local[c].last_seen_id

\* C1: the outgoing state queue of a connection never holds more than one
\* blob; a blob it holds is the one the producer produced most recently; and
\* every enqueue by the producer leaves exactly the newly produced blob in
\* the queue, whatever unsent blob was there before.
C1_QueueHoldsLatestOnly ==
    /\ [](\A c \in Conns :
             /\ Len(stream_q[c]) <= 1
             /\ stream_q[c] # <<>> => stream_q[c][1] = prod_local[c].compressed_data)
    /\ [][\A c \in Conns :
             JustEnqueued(c) => stream_q'[c] = <<prod_local'[c].compressed_data>>]_vars

\* An enqueue has just discarded an unsent blob and left the new one
C1_Witness ==
    \E c \in Conns :
        /\ dropped[c] # NoBlob
        /\ stream_q[c] = <<prod_local[c].compressed_data>>
        /\ dropped[c] # prod_local[c].compressed_data

\* C2: while the sender of a connection is stalled in its write, the
\* producer is never left waiting in its put, it is suspended only in the
\* encoding or in its sleep, and the queue holds at most one blob.
C2_StalledSenderNeverBlocksProducer ==
    \A c \in Conns :
        send_pc[c] = "sending" =>
            /\ prod_pc[c] # "put_wait"
            /\ Len(stream_q[c]) <= 1

\* The sender is stalled writing one blob, and the producer has meanwhile
\* replaced an unsent blob by a newer one and gone back to sleep
C2_Witness ==
    \E c \in Conns :
        /\ send_pc[c] = "sending"
        /\ ws_state[c] = "open"
        /\ prod_pc[c] = "sleeping"
        /\ dropped[c] # NoBlob
        /\ dropped[c] # send_buf[c]
        /\ stream_q[c] = <<prod_local[c].compressed_data>>
        /\ send_buf[c] # prod_local[c].compressed_data

\* The tasks of connection c that have been created and have not ended
LiveTasks(c) ==
    (IF prod_pc[c] \in {"encoding", "sleeping", "put_wait"} THEN {"producer"} ELSE {})
    \cup (IF send_pc[c] \in {"waiting", "sending"} THEN {"sender"} ELSE {})

\* The step dispatched a frame of the given type of connection c
Dispatched(frame_record, c, type) ==
    /\ frame_record.handled
    /\ frame_record.dispatched
    /\ frame_record.conn = c
    /\ frame_record.frame.type = type

\* C15: a connection has a queue exactly when it has a pair of streaming
\* tasks, and every task of it that still runs belongs to that one pair; a
\* subscribe_state request for a connection that already has its pair is
\* answered by subscribe_state_ack with status already_active and leaves the
\* tasks, the queue, its content and the interval as they were.
C15_OneStreamPerConnection ==
    /\ [](\A c \in Conns :
             /\ c \in client_state_queues <=> c \in client_stream_tasks
             /\ LiveTasks(c) # {} => c \in client_stream_tasks)
    /\ [][\A c \in Conns :
             (Dispatched(last_frame', c, "subscribe_state") /\ c \in client_stream_tasks) =>
                /\ UNCHANGED <<streamVars, client_stream_cfg>>
                /\ last_reply'[c].type = "subscribe_state_ack"
                /\ last_reply'[c].status = "already_active"]_vars

\* A subscribe_state request has just been answered already_active while
\* the pair of the connection is mid-stream: a blob waits in the queue and
\* the producer sleeps
C15_Witness ==
    \E c \in Conns :
        /\ Dispatched(last_frame, c, "subscribe_state")
        /\ last_reply[c].type = "subscribe_state_ack"
        /\ last_reply[c].status = "already_active"
        /\ LiveTasks(c) = {"producer", "sender"}
        /\ prod_pc[c] = "sleeping"
        /\ Len(stream_q[c]) = 1

\* The bytes of a blob, whatever object holds them
Content(blob) == [ver |-> blob.ver, ents |-> blob.ents]

\* The bytes held by a queue, in order
Contents(q) == [i \in 1..Len(q) |-> Content(q[i])]

\* C16: when the encoding returns to the producer a blob with the same
\* bytes as the blob it obtained just before, the step leaves the content of
\* the outgoing queue as it was, and the sender never takes from the queue a
\* blob with the same bytes as the blob it sent last.
C16_IdenticalBlobNotRequeued ==
    /\ [][\A c \in Conns :
             (/\ prod_pc[c] = "encoding" /\ prod_pc'[c] \in {"sleeping", "put_wait"}
              /\ prod_local[c].compressed_data # NoBlob
              /\ Content(prod_local'[c].compressed_data) = Content(prod_local[c].compressed_data))
                => Contents(stream_q'[c]) = Contents(stream_q[c])]_vars
    /\ [][\A c \in Conns :
             (send_pc[c] = "waiting" /\ send_pc'[c] = "sending" /\ send_buf[c] # NoBlob)
                => Content(send_buf'[c]) # Content(send_buf[c])]_vars

\* C17: whatever subscribe_state and set_stream_rate requests a connection
\* has sent, the interval its producer sleeps for, and every interval stored
\* for it, is positive and at least 0.001 s.
C17_PollIntervalFloor ==
    \A c \in Conns :
        /\ c \in client_stream_tasks =>
              /\ producer_sleep_dt(c)[1] > 0
              /\ producer_sleep_dt(c)[1] * 1000 >= producer_sleep_dt(c)[2]
        /\ (c \in DOMAIN client_stream_cfg /\ client_stream_cfg[c] # NoDt) =>
              client_stream_cfg[c][1] * 1000 >= client_stream_cfg[c][2]

\* A set_stream_rate request that asked for less than the floor was
\* acknowledged with 0.001 s after the stream had been started at 0.05 s,
\* and the producer sleeps
C17_Witness ==
    \E c \in Conns :
        /\ Dispatched(last_frame, c, "set_stream_rate")
        /\ last_reply[c].type = "set_stream_rate_ack"
        /\ last_reply[c].dt = <<1, 1000>>
        /\ prod_local[c].poll_dt = <<1, 20>>
        /\ prod_pc[c] = "sleeping"
        /\ producer_sleep_dt(c) = <<1, 1000>>

\* The step handled a frame of the given type that carries the client's
\* credential
ClientFrame(frame_record, type) ==
    /\ frame_record.handled
    /\ frame_record.frame.type = type
    /\ frame_record.frame.token_present
    /\ frame_record.frame.token = LiveToken("user")

\* C18: the client's request to stream at 20 per second is acknowledged
\* with dt = 0.05 and 0.05 s becomes the interval of its producer; each of
\* its later requests for another fps is acknowledged by set_stream_rate_ack
\* with dt = 1/fps and that dt becomes the interval of its producer.
C18_RateRequestsAcked ==
    /\ [](ClientFrame(last_frame, "subscribe_state") =>
             /\ last_reply[last_frame.conn].type = "subscribe_state_ack"
             /\ last_reply[last_frame.conn].status # "already_active" =>
                   /\ last_reply[last_frame.conn].dt = <<1, 20>>
                   /\ producer_sleep_dt(last_frame.conn) = <<1, 20>>)
    /\ [](ClientFrame(last_frame, "set_stream_rate") =>
             /\ last_reply[last_frame.conn].type = "set_stream_rate_ack"
             /\ last_reply[last_frame.conn].dt \in {RInv(fps.v) : fps \in ClientRates}
             /\ producer_sleep_dt(last_frame.conn) = last_reply[last_frame.conn].dt)

\* C25: whenever the producer of a connection obtains a newly encoded blob,
\* the blob holds the state of exactly the entities registered for the
\* connection at that time, those subscribed after streaming started
\* included.
C25_EncodesCurrentEntities ==
    [][\A c \in Conns :
          (prod_pc[c] = "encoding" /\ prod_pc'[c] \in {"sleeping", "put_wait"}) =>
              prod_local'[c].compressed_data.ents =
                  Range(get_client_entities(clients_entities_map, c))]_vars

\* C26: in a world of type SERVER, once the producer of a connection has
\* obtained an encoded state, last_state_response of the world holds a
\* state, and an action_and_state_request of the connection is answered with
\* a state blob.
C26_PullAfterPushGetsState ==
    \A c \in Conns :
        (connection_type = "SERVER" /\ prod_local[c].compressed_data # NoBlob) =>
            /\ world_last_state # NoBlob
            /\ Dispatched(last_frame, c, "action_and_state_request") =>
                  last_reply[c].type = "state"

C33_RegisteredPairRuns ==
    \A c \in Conns :
        /\ c \in client_stream_tasks => LiveTasks(c) = {"producer", "sender"}
        /\ (/\ Dispatched(last_frame, c, "subscribe_state")
            /\ last_reply[c].type = "subscribe_state_ack"
            /\ last_reply[c].status = "already_active")
              => LiveTasks(c) = {"producer", "sender"}

\* C34: the handling of an unsubscribe_state request of a connection, and
\* the end of the handler of a connection, leave every entity that another
\* connection with an open transport is subscribed to registered with the
\* world if it was.
C34_OthersStayRegistered ==
    [][\A c \in Conns :
          (\/ Dispatched(last_frame', c, "unsubscribe_state")
           \/ (ws_state[c] # "gone" /\ ws_state'[c] = "gone")) =>
              \A d \in Conns \ {c} :
                  (ws_state[d] = "open" /\ d \in DOMAIN clients_entities_map) =>
                      \A e \in Range(clients_entities_map[d]) :
                          e \in connected_entities => e \in connected_entities']_vars

\* C35: the blob the sender of a connection takes to send is the one its
\* producer produced last, another object than the one sent before and of a
\* world version that is not lower; and a call of wait_for_next_world_state
\* that takes a payload takes one that was received after every payload
\* taken before.
C35_FreshnessMonotone ==
    /\ [][\A c \in Conns :
             (send_pc[c] = "waiting" /\ send_pc'[c] = "sending") =>
                /\ send_buf'[c] = prod_local[c].compressed_data
                /\ send_buf'[c].id # send_buf[c].id
                /\ send_buf'[c].ver >= send_buf[c].ver]_vars
    /\ [][observed' # observed =>
             /\ state_queue # <<>>
             /\ observed' = observed \cup {Head(state_queue).n}
             /\ \A m \in observed : Head(state_queue).n > m]_vars

\* The client has taken the third frame after an earlier one, and the
\* sender holds a blob of a later world version than the first
C35_Witness ==
    /\ wait_call.called
    /\ wait_call.got = 3
    /\ Cardinality(observed) >= 2
    /\ \E c \in Conns : send_buf[c].ver >= 1 /\ send_pc[c] = "waiting"

\* C36: whenever the client's streaming_enabled flag is set, every request
\* it sent having been handled, the server holds a streaming pair for the
\* connection the client currently uses.
C36_FlagMeansServerStreams ==
    (streaming_enabled /\ ws_state[current_connection] = "open") =>
        /\ current_connection \in client_stream_tasks
        /\ current_connection \in client_state_queues

\* C19: once the handler of a connection has ended, by the close of the
\* transport or by any other exception, the connection has no registered
\* streaming tasks and none that still runs, no outgoing queue, no stream
\* configuration, no entry in the client set or in the subscription map, and
\* no authenticated session.
C19_CleanupCompletes ==
    \A c \in Conns :
        ws_state[c] = "gone" =>
            /\ c \notin client_stream_tasks
            /\ LiveTasks(c) = {}
            /\ c \notin client_state_queues
            /\ c \notin DOMAIN client_stream_cfg
            /\ c \notin clients
            /\ c \notin DOMAIN clients_entities_map
            /\ c \notin DOMAIN authenticated_sessions

\* ---------------------------------------------------------------------
\* AuthenticatedWebSocketServer: properties
\* ---------------------------------------------------------------------

\* The frame carries a token that validates at time t
TokenValid(f, t) == f.shape = "dict" /\ f.token_present /\ validate_token(f.token, t).ok

\* The permission level of the frame's token
TokenLevel(f, t) == get_user_permission_level(validate_token(f.token, t))

\* The frame passes both checks at time t: its token validates and the
\* action it declares is permitted to the token's role
PassesChecks(f, t) ==
    /\ TokenValid(f, t)
    /\ check_action_permission(declared_action(f), TokenLevel(f, t))

C28_BadFrameKeepsConnection ==
    /\ [][\A c \in Conns :
             (/\ last_frame'.handled
              /\ last_frame'.conn = c
              /\ ~PassesChecks(last_frame'.frame, last_frame'.at)) =>
                /\ ws_state'[c] = "open"
                /\ UNCHANGED <<ws_state, clients>>
                /\ ~last_frame'.dispatched
                /\ CASE last_frame'.frame.shape # "dict" ->
                          last_reply'[c] = NoReply
                     [] OTHER ->
                          /\ last_reply'[c].type = "error"
                          /\ last_reply'[c].error_type =
                                IF TokenValid(last_frame'.frame, last_frame'.at)
                                THEN "authorization_error" ELSE "authentication_error"]_vars
    /\ [][(/\ last_frame.handled
           /\ ~last_frame.dispatched
           /\ last_frame'.handled
           /\ last_frame'.conn = last_frame.conn
           /\ PassesChecks(last_frame'.frame, last_frame'.at)) =>
              last_frame'.dispatched]_vars

\* A frame that is not msgpack has just been dropped without a reply on a
\* connection that streams, and the connection is open and registered
C28_Witness ==
    /\ last_frame.handled
    /\ ~last_frame.dispatched
    /\ last_frame.frame.shape = "not_msgpack"
    /\ last_reply[last_frame.conn] = NoReply
    /\ ws_state[last_frame.conn] = "open"
    /\ last_frame.conn \in clients
    /\ last_frame.conn \in client_stream_tasks

\* The step handled a subscribe_entities frame whose token validates with
\* permission level
SubscribeEntitiesBy(frame_record, level) ==
    /\ frame_record.handled
    /\ frame_record.frame.type = "subscribe_entities"
    /\ TokenValid(frame_record.frame, frame_record.at)
    /\ TokenLevel(frame_record.frame, frame_record.at) = level

\* C7: a subscribe_entities frame with a guest credential is answered by an
\* error of error_type authorization_error and registers no entity; with a
\* user credential it is answered by subscribe_entities_ack whose count is
\* the number of entities registered for the connection.
C7_SubscribeEntitiesByRole ==
    /\ [](SubscribeEntitiesBy(last_frame, "guest") =>
             /\ last_reply[last_frame.conn].type = "error"
             /\ last_reply[last_frame.conn].error_type = "authorization_error")
    /\ [](SubscribeEntitiesBy(last_frame, "user") =>
             /\ last_reply[last_frame.conn].type = "subscribe_entities_ack"
             /\ last_reply[last_frame.conn].count = Len(clients_entities_map[last_frame.conn]))
    /\ [][SubscribeEntitiesBy(last_frame', "guest") =>
             UNCHANGED <<clients_entities_map, connected_entities>>]_vars

\* =====================================================================
\* PubSubTopicBroker and TopicReader
\* =====================================================================
MaxPublished == 2

Readers == {"r1", "r2"}

\* The threads that call publish_event
Producers == {"p1", "p2"}

Topics == {"A", "B"}

\* The topics argument of TopicReader(bus, topics): None, or a list
AllTopics == [all |-> TRUE, set |-> {}]

TopicFilters == {AllTopics, [all |-> FALSE, set |-> {"A"}]}

NoPublish == [pc |-> "idle", topic |-> "none",
              event |-> [id |-> 0, by |-> "none", topic |-> "none"], rest |-> <<>>]

NoOp == [name |-> "none", reader |-> "none", repeat |-> FALSE]

\* The step belongs to the call name on reader r
op(name, r) ==
    last_op' = [name |-> name, reader |-> r,
                repeat |-> last_op.name = name /\ last_op.reader = r]

BrokerInit ==
    /\ consumers = <<>>
    /\ broker_lock = "free"
    /\ reader_state = [r \in Readers |-> "unbuilt"]
    /\ reader_topics = [r \in Readers |-> AllTopics]
    /\ reader_queue = [r \in Readers |-> <<>>]
    /\ pub = [p \in Producers |-> NoPublish]
    /\ next_pub = 1
    /\ owed = [r \in Readers |-> <<>>]
    /\ drained = [r \in Readers |-> <<>>]
    /\ last_op = NoOp

\* register_consumer, inside the lock
register_consumer(lst, consumer) ==
    IF consumer \in Range(lst) THEN lst ELSE Append(lst, consumer)

unregister_nothing(lst, consumer) == lst

\* unregister_consumer, inside the lock
unregister_consumer(lst, consumer) ==
    IF consumer \in Range(lst) THEN Remove(lst, consumer) ELSE lst

\* TopicReader.__init__: the reader is built and registers itself
TopicReader_init(r, topics) ==
    /\ reader_state[r] = "unbuilt"
    /\ broker_lock = "free"
    /\ reader_state' = [reader_state EXCEPT ![r] = "open"]
    /\ reader_topics' = [reader_topics EXCEPT ![r] = topics]
    /\ consumers' = register_consumer(consumers, r)
    /\ op("init", r)
    /\ UNCHANGED <<broker_lock, reader_queue, pub, next_pub, owed, drained>>

\* PubSubTopicBroker.register_consumer called again for an open reader
register_again(r) ==
    /\ reader_state[r] = "open"
    /\ broker_lock = "free"
    /\ consumers' = register_consumer(consumers, r)
    /\ op("register_consumer", r)
    /\ UNCHANGED <<broker_lock, reader_state, reader_topics, reader_queue, pub, next_pub,
                   owed, drained>>

matches_any(r, topic) == TRUE

\* c.topics is None or topic in c.topics
matches(r, topic) == reader_topics[r].all \/ topic \in reader_topics[r].set

\* The filter of reader r admits topic
Admits(r, topic) ==
    IF reader_topics[r].all THEN TRUE ELSE topic \in reader_topics[r].set

without_lock(p) == "free"

\* `with self._lock` in publish_event: the holder of the broker's lock
\* while thread p is inside the block
with_lock(p) == p

\* publish_event: the thread takes the lock and copies the consumer list
publish_event_call(p, topic) ==
    /\ pub[p].pc = "idle"
    /\ broker_lock = "free"
    /\ next_pub <= MaxPublished
    /\ LET event == [id |-> next_pub, by |-> p, topic |-> topic]
       IN  /\ pub' = [pub EXCEPT ![p] = [pc |-> "fanout", topic |-> topic, event |-> event,
                                         rest |-> consumers]]
           /\ owed' = [r \in Readers |->
                          IF r \in Range(consumers) /\ Admits(r, topic)
                          THEN Append(owed[r], event) ELSE owed[r]]
    /\ broker_lock' = with_lock(p)
    /\ next_pub' = next_pub + 1
    /\ op("publish_event", "none")
    /\ UNCHANGED <<consumers, reader_state, reader_topics, reader_queue, drained>>

enqueue_front(q, event) == <<event>> \o q

\* TopicReader.enqueue, inside the reader's lock
enqueue(q, event) == Append(q, event)

\* publish_event: one iteration of the loop over the copied list, or the
\* end of the loop and the release of the lock
publish_event_step(p) ==
    /\ pub[p].pc = "fanout"
    /\ IF pub[p].rest = <<>>
       THEN /\ pub' = [pub EXCEPT ![p] = NoPublish]
            /\ broker_lock' = "free"
            /\ UNCHANGED reader_queue
       ELSE LET c == Head(pub[p].rest)
            IN  /\ pub' = [pub EXCEPT ![p].rest = Tail(@)]
                /\ IF matches(c, pub[p].topic)
                   THEN reader_queue' = [reader_queue EXCEPT ![c] = enqueue(@, pub[p].event)]
                   ELSE UNCHANGED reader_queue
                /\ UNCHANGED broker_lock
    /\ op("publish_event", "none")
    /\ UNCHANGED <<consumers, reader_state, reader_topics, next_pub, owed, drained>>

queue_not_cleared(q) == q

\* self._queue.clear()
queue_clear(q) == <<>>

\* TopicReader.drain, inside the reader's lock
drain_reader(r) ==
    /\ reader_state[r] # "unbuilt"
    /\ LET items == reader_queue[r]
       IN  /\ reader_queue' = [reader_queue EXCEPT ![r] = queue_clear(@)]
           /\ drained' = [drained EXCEPT ![r] = @ \o items]
    /\ op("drain", r)
    /\ UNCHANGED <<consumers, broker_lock, reader_state, reader_topics, pub, next_pub, owed>>

\* TopicReader.peek(n), inside the reader's lock
peek(r, n) ==
    /\ reader_state[r] # "unbuilt"
    /\ n >= 0
    /\ op("peek", r)
    /\ UNCHANGED <<consumers, broker_lock, reader_state, reader_topics, reader_queue, pub,
                   next_pub, owed, drained>>

\* TopicReader.close
close(r) ==
    /\ reader_state[r] # "unbuilt"
    /\ broker_lock = "free"
    /\ consumers' = unregister_consumer(consumers, r)
    /\ reader_state' = [reader_state EXCEPT ![r] = "closed"]
    /\ op("close", r)
    /\ UNCHANGED <<broker_lock, reader_topics, reader_queue, pub, next_pub, owed, drained>>

\* TopicReader.__exit__(exc_type, ...): the with-block of an open reader
\* ends, normally (exc_type None) or by an exception, and close() runs
TopicReader_exit(r, exc_type) ==
    /\ reader_state[r] = "open"
    /\ exc_type \in {"None", "Exception"}
    /\ close(r)

\* ---------------------------------------------------------------------
\* PubSubTopicBroker and TopicReader: properties
\* ---------------------------------------------------------------------

\* Everything appended to the buffer of reader r so far, in buffer order
Delivered(r) == drained[r] \o reader_queue[r]

\* The number of places of sequence q that hold x
Occurrences(q, x) == Cardinality({i \in 1..Len(q) : q[i] = x})

\* No publish_event call is in progress
BrokerQuiet == \A p \in Producers : pub[p].pc = "idle"

\* C11: an event is appended to a reader's buffer only if it was published
\* while the reader was registered and to a topic its filter admits, never
\* more than once, and once its publish_event call has returned it is in
\* the buffer of every such reader.
C11_FanOutByTopic ==
    \A r \in Readers :
        /\ \A i \in 1..Len(Delivered(r)) :
              /\ Occurrences(owed[r], Delivered(r)[i]) = 1
              /\ Occurrences(Delivered(r), Delivered(r)[i]) = 1
              /\ Admits(r, Delivered(r)[i].topic)
        /\ BrokerQuiet => \A i \in 1..Len(owed[r]) : Occurrences(Delivered(r), owed[r][i]) = 1

\* Two open readers, one on every topic and one on {A}; an event on A and
\* then one on B were published while both were registered; the first
\* reader holds both and the second only the one on A
C11_Witness ==
    \E r1, r2 \in Readers :
        /\ reader_state[r1] = "open" /\ reader_state[r2] = "open"
        /\ reader_topics[r1].all
        /\ reader_topics[r2] = [all |-> FALSE, set |-> {"A"}]
        /\ BrokerQuiet
        /\ Len(Delivered(r1)) = 2
        /\ Delivered(r1)[1].topic = "A" /\ Delivered(r1)[2].topic = "B"
        /\ Delivered(r2) = <<Delivered(r1)[1]>>

\* C12: a drain() returns the whole buffer in the order it was appended and
\* leaves the buffer empty, and a drain() that directly follows a drain() of
\* the same reader returns nothing.
C12_DrainReturnsAllThenNothing ==
    /\ [][\A r \in Readers :
             (last_op'.name = "drain" /\ last_op'.reader = r) =>
                 /\ drained'[r] = drained[r] \o reader_queue[r]
                 /\ reader_queue'[r] = <<>>]_vars
    /\ [][\A r \in Readers :
             (last_op'.name = "drain" /\ last_op'.reader = r /\ last_op'.repeat) =>
                 drained'[r] = drained[r]]_vars

\* A reader was drained twice in a row, and its drains had returned two
\* events in the order they were published
C12_Witness ==
    \E r \in Readers :
        /\ last_op = [name |-> "drain", reader |-> r, repeat |-> TRUE]
        /\ Len(drained[r]) = 2
        /\ drained[r][1].id < drained[r][2].id
        /\ reader_queue[r] = <<>>

\* C13: whatever the interleaving of publish_event, drain and peek, what a
\* reader's drains have returned followed by what its buffer still holds is
\* exactly the sequence of events published for it, each once and in
\* publishing order (the event of a publish_event call that has not reached
\* the reader yet excepted); in particular the events of one producer come
\* in the order that producer published them.
C13_NoneLostNoneDuplicated ==
    \A r \in Readers :
        /\ \/ Delivered(r) = owed[r]
           \/ \E p \in Producers :
                 /\ pub[p].pc = "fanout"
                 /\ r \in Range(pub[p].rest)
                 /\ owed[r] = Append(Delivered(r), pub[p].event)
        /\ \A i, j \in 1..Len(Delivered(r)) :
              i < j =>
                 /\ Delivered(r)[i] # Delivered(r)[j]
                 /\ Delivered(r)[i].by = Delivered(r)[j].by
                       => Delivered(r)[i].id < Delivered(r)[j].id

\* A reader's drain has just returned, after an event of another thread, the
\* event of a publish_event call that is still fanning out to other
\* consumers
C13_Witness ==
    \E r \in Readers, p \in Producers :
        /\ pub[p].pc = "fanout"
        /\ pub[p].rest # <<>>
        /\ last_op.name = "drain" /\ last_op.reader = r
        /\ Len(drained[r]) = 2
        /\ drained[r][2] = pub[p].event
        /\ drained[r][1].by # p
        /\ reader_queue[r] = <<>>

\* C14: once close() has run for a reader (called directly or by the end of
\* its with-block), the reader is not in the broker's consumer list and no
\* publish_event step appends to its buffer; the events it had buffered are
\* still returned by drain(); and a further close() changes nothing.
C14_ClosedReaderGetsNothingMore ==
    /\ [](\A r \in Readers : reader_state[r] = "closed" => r \notin Range(consumers))
    /\ [][\A r \in Readers :
             reader_state[r] = "closed" =>
                /\ last_op'.name = "publish_event" => reader_queue'[r] = reader_queue[r]
                /\ (last_op'.name = "drain" /\ last_op'.reader = r) =>
                      drained'[r] = drained[r] \o reader_queue[r]
                /\ (last_op'.name = "close" /\ last_op'.reader = r) =>
                      UNCHANGED <<consumers, broker_lock, reader_state, reader_topics,
                                  reader_queue, pub, owed, drained>>]_vars

\* A closed reader that takes every topic has just been drained and its
\* drains returned the first event, while the second event, published after
\* the close, went to the other reader only
C14_Witness ==
    \E r \in Readers, o \in Readers :
        /\ reader_state[r] = "closed"
        /\ reader_topics[r].all
        /\ last_op.name = "drain" /\ last_op.reader = r
        /\ Len(drained[r]) = 1 /\ drained[r][1].id = 1
        /\ reader_queue[r] = <<>>
        /\ Len(owed[o]) = 2 /\ owed[o][1].id = 1
        /\ BrokerQuiet

\* The places of event e in what reader r has been handed so far
Places(r, e) == {i \in 1..Len(Delivered(r)) : Delivered(r)[i] = e}

\* C38: any two readers that were both handed two published events were
\* handed them in the same relative order, whichever threads published
\* them and whatever registrations and closes went on meanwhile.
C38_SameRelativeOrder ==
    \A r1, r2 \in Readers :
        \A e, f \in Range(Delivered(r1)) \cap Range(Delivered(r2)) :
            (\E i \in Places(r1, e), j \in Places(r1, f) : i < j)
                => (\A i \in Places(r2, e), j \in Places(r2, f) : i < j)

\* C38 witness: two events published by different threads have both been
\* handed to two readers, and both publish_event calls have returned
C38_Witness ==
    /\ BrokerQuiet
    /\ \E e, f \in Range(Delivered("r1")) \cap Range(Delivered("r2")) : e.by # f.by
    /\ last_op.name = "publish_event"

\* =====================================================================
\* Specifications: one per subsystem, the others at rest
\* =====================================================================
InitBus == BusInit /\ AuthInit /\ RecvInit /\ ServerInit({"SERVER"}) /\ BrokerInit

NextBus ==
    \/ \E t \in EvTypes, cb \in Callbacks : subscribe(t, cb) /\ UNCHANGED <<authVars, recvVars, serverVars, brokerVars>>
    \/ \E t \in EvTypes, cb \in Callbacks : unsubscribe(t, cb) /\ UNCHANGED <<authVars, recvVars, serverVars, brokerVars>>
    \/ \E t \in EvTypes : emit(t) /\ UNCHANGED <<authVars, recvVars, serverVars, brokerVars>>
    \/ \E t \in EvTypes : emit_immediate_call(t) /\ UNCHANGED <<authVars, recvVars, serverVars, brokerVars>>
    \/ clear /\ UNCHANGED <<authVars, recvVars, serverVars, brokerVars>>
    \/ process_events_call /\ UNCHANGED <<authVars, recvVars, serverVars, brokerVars>>
    \/ process_events_loop /\ UNCHANGED <<authVars, recvVars, serverVars, brokerVars>>
    \/ invoke_callback /\ UNCHANGED <<authVars, recvVars, serverVars, brokerVars>>
    \/ emit_immediate_return /\ UNCHANGED <<authVars, recvVars, serverVars, brokerVars>>

SpecBus == InitBus /\ [][NextBus]_vars

InitAuth == BusInit /\ AuthInit /\ RecvInit /\ ServerInit({"SERVER"}) /\ BrokerInit

NextAuth ==
    \/ Tick /\ UNCHANGED <<busVars, recvVars, serverVars, brokerVars>>
    \/ \E tok \in Tokens : ValidateCall(tok) /\ UNCHANGED <<busVars, recvVars, serverVars, brokerVars>>
    \/ \E a \in ActionNames, l \in PermissionLevels :
          PermissionCall(a, l) /\ UNCHANGED <<busVars, recvVars, serverVars, brokerVars>>

SpecAuth == InitAuth /\ [][NextAuth]_vars

\* The authorization of the requests of the protocol, for every role
InitProtocol == BusInit /\ AuthInit /\ RecvInit /\ ServerInit({"SERVER"}) /\ BrokerInit

NextProtocol ==
    \/ Tick /\ UNCHANGED <<busVars, recvVars, serverVars, brokerVars>>
    \/ \E a \in HandledTypes \cup FacadeActions \cup {"ai_decisions"}, l \in PermissionLevels :
          PermissionCall(a, l) /\ UNCHANGED <<busVars, recvVars, serverVars, brokerVars>>

SpecProtocol == InitProtocol /\ [][NextProtocol]_vars

InitRecv == BusInit /\ AuthInit /\ RecvInit /\ ServerInit({"SERVER"}) /\ BrokerInit

NextRecv ==
    \/ \E kind \in FrameKinds : server_sends(kind) /\ UNCHANGED <<busVars, authVars, serverVars, brokerVars>>
    \/ transport_closes /\ UNCHANGED <<busVars, authVars, serverVars, brokerVars>>
    \/ start /\ UNCHANGED <<busVars, authVars, serverVars, brokerVars>>
    \/ stop(FALSE, "None") /\ UNCHANGED <<busVars, authVars, serverVars, brokerVars>>
    \/ recv_loop_step /\ UNCHANGED <<busVars, authVars, serverVars, brokerVars>>
    \/ enable_state_stream /\ UNCHANGED <<busVars, authVars, serverVars, brokerVars>>
    \/ wait_for_next_world_state /\ UNCHANGED <<busVars, authVars, serverVars, brokerVars>>

SpecRecv == InitRecv /\ [][NextRecv]_vars

\* The replies received and not yet consumed when the run begins: one less
\* than the control queue holds
Unread == [i \in 1..(CONTROL_QUEUE_MAXSIZE - 1) |-> [n |-> 0, kind |-> "control"]]

\* A connected client whose receive loop has queued Unread
InitQueues ==
    /\ BusInit /\ AuthInit /\ ServerInit({"SERVER"}) /\ BrokerInit
    /\ wire_in = <<>>
    /\ ws_open = TRUE
    /\ frames_sent = 0
    /\ stop_evt = FALSE
    /\ recv_pc = "loop"
    /\ recv_data = NoFrame
    /\ recv_target = "none"
    /\ state_queue = <<>>
    /\ control_queue = Unread
    /\ error_queue = <<>>
    /\ last_state_response = 0
    /\ streaming_enabled = FALSE
    /\ wait_call = NoCall
    /\ last_state_recv = 0
    /\ last_enq = 0
    /\ observed = {}
    /\ evicted = {}
    /\ alive_loops = 1
    /\ join_pc = "none"
    /\ started = TRUE
    /\ online_pc = "idle"
    /\ server_online_flag = FALSE
    /\ online_call = NoCall
    /\ subscribe_sent = 0

NextQueues ==
    \/ \E kind \in {"state", "control", "error"} :
          server_sends(kind) /\ UNCHANGED <<busVars, authVars, serverVars, brokerVars>>
    \/ transport_closes /\ UNCHANGED <<busVars, authVars, serverVars, brokerVars>>
    \/ stop(FALSE, "None") /\ UNCHANGED <<busVars, authVars, serverVars, brokerVars>>
    \/ recv_loop_step /\ UNCHANGED <<busVars, authVars, serverVars, brokerVars>>
    \/ \E q \in {"state", "control", "error"} :
          consumer_get(q) /\ UNCHANGED <<busVars, authVars, serverVars, brokerVars>>

SpecQueues == InitQueues /\ [][NextQueues]_vars

\* The receive thread under start, stop and the transport
InitLife == BusInit /\ AuthInit /\ RecvInit /\ ServerInit({"SERVER"}) /\ BrokerInit

\* One step of the receive thread
RecvThread == recv_loop_step /\ UNCHANGED <<busVars, authVars, serverVars, brokerVars>>

NextLife ==
    \/ \E kind \in {"state", "control", "error"} :
          server_sends(kind) /\ UNCHANGED <<busVars, authVars, serverVars, brokerVars>>
    \/ transport_closes /\ UNCHANGED <<busVars, authVars, serverVars, brokerVars>>
    \/ start /\ UNCHANGED <<busVars, authVars, serverVars, brokerVars>>
    \/ \E join \in BOOLEAN, timeout \in {"None", "1.0"} :
          stop(join, timeout) /\ UNCHANGED <<busVars, authVars, serverVars, brokerVars>>
    \/ stop_join_returns /\ UNCHANGED <<busVars, authVars, serverVars, brokerVars>>
    \/ RecvThread

SpecLife == InitLife /\ [][NextLife]_vars

\* The receive thread is scheduled as long as it can take a step
SpecLifeFair == InitLife /\ [][NextLife]_vars /\ WF_vars(RecvThread)

\* The client asking whether the server is online
InitOnline == BusInit /\ AuthInit /\ RecvInit /\ ServerInit({"SERVER"}) /\ BrokerInit

NextOnline ==
    \/ \E kind \in TypedKinds :
          server_sends(kind) /\ UNCHANGED <<busVars, authVars, serverVars, brokerVars>>
    \/ transport_closes /\ UNCHANGED <<busVars, authVars, serverVars, brokerVars>>
    \/ start /\ UNCHANGED <<busVars, authVars, serverVars, brokerVars>>
    \/ RecvThread
    \/ server_online_call /\ UNCHANGED <<busVars, authVars, serverVars, brokerVars>>
    \/ \E expired \in BOOLEAN :
          server_online_get(expired) /\ UNCHANGED <<busVars, authVars, serverVars, brokerVars>>
    \/ server_online_timeout /\ UNCHANGED <<busVars, authVars, serverVars, brokerVars>>

SpecOnline == InitOnline /\ [][NextOnline]_vars

\* The server under every kind of request
InitServer == BusInit /\ AuthInit /\ RecvInit /\ ServerInit({"SERVER"}) /\ BrokerInit

NextServer ==
    \/ \E c \in ServerConns : handle_client_enter(c) /\ UNCHANGED <<busVars, authVars, recvVars, brokerVars>>
    \/ \E c \in ServerConns : connection_lost(c) /\ UNCHANGED <<busVars, authVars, recvVars, brokerVars>>
    \/ \E c \in ServerConns : handle_client_exit(c) /\ UNCHANGED <<busVars, authVars, recvVars, brokerVars>>
    \/ \E c \in ServerConns,
          f \in PlainRequests(Credentials) \cup StateRequests(Credentials) \cup MalformedFrames :
          handle_client_frame(c, f) /\ UNCHANGED <<busVars, authVars, recvVars, brokerVars>>
    \/ \E c \in ServerConns, f \in SubscribeEntitiesRequests(Credentials, {<<1, NotAnInt>>}) :
          handle_client_frame(c, f) /\ UNCHANGED <<busVars, authVars, recvVars, brokerVars>>
    \/ \E c \in ServerConns, f \in StreamRequests(Credentials, {<<Num(20, 1), Absent>>}) :
          handle_client_frame(c, f) /\ UNCHANGED <<busVars, authVars, recvVars, brokerVars>>
    \/ \E c \in ServerConns, f \in ActionRequests(Credentials) :
          handle_client_frame(c, f) /\ UNCHANGED <<busVars, authVars, recvVars, brokerVars>>

SpecServer == InitServer /\ [][NextServer]_vars

\* The streaming pair of a connection under the requests that start, stop
\* and retune it, while the world advances
InitStream == BusInit /\ AuthInit /\ RecvInit /\ ServerInit(WorldInstanceTypes) /\ BrokerInit

NextStream ==
    \/ \E c \in ServerConns : handle_client_enter(c) /\ UNCHANGED <<busVars, authVars, recvVars, brokerVars>>
    \/ \E c \in ServerConns : connection_lost(c) /\ UNCHANGED <<busVars, authVars, recvVars, brokerVars>>
    \/ \E c \in ServerConns : handle_client_exit(c) /\ UNCHANGED <<busVars, authVars, recvVars, brokerVars>>
    \/ update_world /\ UNCHANGED <<busVars, authVars, recvVars, brokerVars>>
    \/ \E c \in ServerConns, id \in BlobIds, raises \in BOOLEAN :
          producer_encoded(c, id, raises) /\ UNCHANGED <<busVars, authVars, recvVars, brokerVars>>
    \/ \E c \in ServerConns : producer_resumes(c) /\ UNCHANGED <<busVars, authVars, recvVars, brokerVars>>
    \/ \E c \in ServerConns : sender_gets(c) /\ UNCHANGED <<busVars, authVars, recvVars, brokerVars>>
    \/ \E c \in ServerConns : sender_sent(c) /\ UNCHANGED <<busVars, authVars, recvVars, brokerVars>>
    \/ \E c \in ServerConns, f \in StreamRequests(AdminCredentials, {<<Absent, Absent>>, <<Num(20, 1), Absent>>}) :
          handle_client_frame(c, f) /\ UNCHANGED <<busVars, authVars, recvVars, brokerVars>>
    \/ \E c \in ServerConns, f \in PlainRequests(AdminCredentials) :
          handle_client_frame(c, f) /\ UNCHANGED <<busVars, authVars, recvVars, brokerVars>>

SpecStream == InitStream /\ [][NextStream]_vars

\* The broker with its producer threads and the owners of its readers
InitRate == BusInit /\ AuthInit /\ RecvInit /\ ServerInit({"SERVER"}) /\ BrokerInit

NextRate ==
    \/ \E c \in ServerConns : handle_client_enter(c) /\ UNCHANGED <<busVars, authVars, recvVars, brokerVars>>
    \/ \E c \in ServerConns : connection_lost(c) /\ UNCHANGED <<busVars, authVars, recvVars, brokerVars>>
    \/ \E c \in ServerConns : handle_client_exit(c) /\ UNCHANGED <<busVars, authVars, recvVars, brokerVars>>
    \/ \E c \in ServerConns, id \in BlobIds, raises \in BOOLEAN :
          producer_encoded(c, id, raises) /\ UNCHANGED <<busVars, authVars, recvVars, brokerVars>>
    \/ \E c \in ServerConns : producer_resumes(c) /\ UNCHANGED <<busVars, authVars, recvVars, brokerVars>>
    \/ \E c \in ServerConns, f \in StreamRequests(AdminCredentials, Rates) :
          handle_client_frame(c, f) /\ UNCHANGED <<busVars, authVars, recvVars, brokerVars>>
    \/ \E c \in ServerConns, f \in ClientStreamRequests :
          handle_client_frame(c, f) /\ UNCHANGED <<busVars, authVars, recvVars, brokerVars>>
    \/ \E c \in ServerConns, f \in PlainRequests(AdminCredentials) :
          handle_client_frame(c, f) /\ UNCHANGED <<busVars, authVars, recvVars, brokerVars>>

SpecRate == InitRate /\ [][NextRate]_vars

\* One connection that streams, subscribes to entities and pulls states
InitPerception == BusInit /\ AuthInit /\ RecvInit /\ ServerInit({"SERVER"}) /\ BrokerInit

NextPerception ==
    \/ \E c \in ServerConns : handle_client_enter(c) /\ UNCHANGED <<busVars, authVars, recvVars, brokerVars>>
    \/ update_world /\ UNCHANGED <<busVars, authVars, recvVars, brokerVars>>
    \/ \E c \in ServerConns, id \in BlobIds, raises \in BOOLEAN :
          producer_encoded(c, id, raises) /\ UNCHANGED <<busVars, authVars, recvVars, brokerVars>>
    \/ \E c \in ServerConns : producer_resumes(c) /\ UNCHANGED <<busVars, authVars, recvVars, brokerVars>>
    \/ \E c \in ServerConns : sender_gets(c) /\ UNCHANGED <<busVars, authVars, recvVars, brokerVars>>
    \/ \E c \in ServerConns : sender_sent(c) /\ UNCHANGED <<busVars, authVars, recvVars, brokerVars>>
    \/ \E c \in ServerConns, f \in StreamRequests(AdminCredentials, {<<Num(20, 1), Absent>>}) :
          handle_client_frame(c, f) /\ UNCHANGED <<busVars, authVars, recvVars, brokerVars>>
    \/ \E c \in ServerConns, f \in SubscribeEntitiesRequests(AdminCredentials, {<<1>>}) :
          handle_client_frame(c, f) /\ UNCHANGED <<busVars, authVars, recvVars, brokerVars>>
    \/ \E c \in ServerConns, f \in StateRequests(AdminCredentials) :
          handle_client_frame(c, f) /\ UNCHANGED <<busVars, authVars, recvVars, brokerVars>>

SpecPerception == InitPerception /\ [][NextPerception]_vars

\* Two connections that subscribe to entities, unsubscribe and disconnect
InitShared == BusInit /\ AuthInit /\ RecvInit /\ ServerInit({"SERVER"}) /\ BrokerInit

NextShared ==
    \/ \E c \in Conns : handle_client_enter(c) /\ UNCHANGED <<busVars, authVars, recvVars, brokerVars>>
    \/ \E c \in Conns : connection_lost(c) /\ UNCHANGED <<busVars, authVars, recvVars, brokerVars>>
    \/ \E c \in Conns : handle_client_exit(c) /\ UNCHANGED <<busVars, authVars, recvVars, brokerVars>>
    \/ \E c \in Conns, f \in SubscribeEntitiesRequests(AdminCredentials, {<<1>>}) :
          handle_client_frame(c, f) /\ UNCHANGED <<busVars, authVars, recvVars, brokerVars>>
    \/ \E c \in Conns, f \in PlainRequests(AdminCredentials) :
          handle_client_frame(c, f) /\ UNCHANGED <<busVars, authVars, recvVars, brokerVars>>

SpecShared == InitShared /\ [][NextShared]_vars

\* sender(): websocket.send(buf) returns and the frame is on its way to the
\* client
sender_delivers(c) ==
    /\ ws_state[c] = "open"
    /\ sender_sent(c)
    /\ server_sends("state")

\* One connection from the producer to the client's reader
InitEndToEnd == BusInit /\ AuthInit /\ RecvInit /\ ServerInit({"SERVER"}) /\ BrokerInit

NextEndToEnd ==
    \/ \E c \in ServerConns : handle_client_enter(c) /\ UNCHANGED <<busVars, authVars, recvVars, brokerVars>>
    \/ update_world /\ UNCHANGED <<busVars, authVars, recvVars, brokerVars>>
    \/ \E c \in ServerConns, f \in StreamRequests(AdminCredentials, {<<Num(20, 1), Absent>>}) :
          handle_client_frame(c, f) /\ UNCHANGED <<busVars, authVars, recvVars, brokerVars>>
    \/ \E c \in ServerConns, id \in BlobIds :
          producer_encoded(c, id, FALSE) /\ UNCHANGED <<busVars, authVars, recvVars, brokerVars>>
    \/ \E c \in ServerConns : producer_resumes(c) /\ UNCHANGED <<busVars, authVars, recvVars, brokerVars>>
    \/ \E c \in ServerConns : sender_gets(c) /\ UNCHANGED <<busVars, authVars, recvVars, brokerVars>>
    \/ \E c \in ServerConns : sender_delivers(c) /\ UNCHANGED <<busVars, authVars, brokerVars>>
    \/ start /\ UNCHANGED <<busVars, authVars, serverVars, brokerVars>>
    \/ RecvThread
    \/ wait_for_next_world_state /\ UNCHANGED <<busVars, authVars, serverVars, brokerVars>>

SpecEndToEnd == InitEndToEnd /\ [][NextEndToEnd]_vars

\* A client that connects, enables streaming, reads states and connects again
InitClient == BusInit /\ AuthInit /\ RecvInit /\ ServerInit({"SERVER"}) /\ BrokerInit

NextClient ==
    \/ \E c \in Conns : connect(c) /\ UNCHANGED <<busVars, authVars, brokerVars>>
    \/ \E verifies \in BOOLEAN :
          client_enables_stream(verifies) /\ UNCHANGED <<busVars, authVars, brokerVars>>
    \/ \E verifies \in BOOLEAN :
          client_waits(verifies) /\ UNCHANGED <<busVars, authVars, brokerVars>>
    \/ update_world /\ UNCHANGED <<busVars, authVars, recvVars, brokerVars>>
    \/ \E c \in Conns, id \in BlobIds :
          producer_encoded(c, id, FALSE) /\ UNCHANGED <<busVars, authVars, recvVars, brokerVars>>
    \/ \E c \in Conns : producer_resumes(c) /\ UNCHANGED <<busVars, authVars, recvVars, brokerVars>>
    \/ \E c \in Conns : sender_gets(c) /\ UNCHANGED <<busVars, authVars, recvVars, brokerVars>>
    \/ \E c \in Conns : sender_sent(c) /\ UNCHANGED <<busVars, authVars, recvVars, brokerVars>>

SpecClient == InitClient /\ [][NextClient]_vars

InitCleanup == BusInit /\ AuthInit /\ RecvInit /\ ServerInit({"SERVER"}) /\ BrokerInit

NextCleanup ==
    \/ \E c \in ServerConns : handle_client_enter(c) /\ UNCHANGED <<busVars, authVars, recvVars, brokerVars>>
    \/ \E c \in ServerConns : close_handshake(c) /\ UNCHANGED <<busVars, authVars, recvVars, brokerVars>>
    \/ \E c \in ServerConns : connection_lost(c) /\ UNCHANGED <<busVars, authVars, recvVars, brokerVars>>
    \/ \E c \in ServerConns : handle_client_exit(c) /\ UNCHANGED <<busVars, authVars, recvVars, brokerVars>>
    \/ \E c \in ServerConns, id \in BlobIds, raises \in BOOLEAN :
          producer_encoded(c, id, raises) /\ UNCHANGED <<busVars, authVars, recvVars, brokerVars>>
    \/ \E c \in ServerConns : producer_resumes(c) /\ UNCHANGED <<busVars, authVars, recvVars, brokerVars>>
    \/ \E c \in ServerConns : sender_gets(c) /\ UNCHANGED <<busVars, authVars, recvVars, brokerVars>>
    \/ \E c \in ServerConns : sender_sent(c) /\ UNCHANGED <<busVars, authVars, recvVars, brokerVars>>
    \/ \E c \in ServerConns, f \in StreamRequests(AdminCredentials, {<<Num(20, 1), Absent>>}) :
          handle_client_frame(c, f) /\ UNCHANGED <<busVars, authVars, recvVars, brokerVars>>
    \/ \E c \in ServerConns, f \in SubscribeEntitiesRequests(AdminCredentials, {<<1>>}) :
          handle_client_frame(c, f) /\ UNCHANGED <<busVars, authVars, recvVars, brokerVars>>
    \/ \E c \in ServerConns, f \in PlainRequests(AdminCredentials) :
          handle_client_frame(c, f) /\ UNCHANGED <<busVars, authVars, recvVars, brokerVars>>

SpecCleanup == InitCleanup /\ [][NextCleanup]_vars

InitBroker == BusInit /\ AuthInit /\ RecvInit /\ ServerInit({"SERVER"}) /\ BrokerInit

NextBroker ==
    \/ \E r \in Readers, topics \in TopicFilters :
          TopicReader_init(r, topics) /\ UNCHANGED <<busVars, authVars, recvVars, serverVars>>
    \/ \E r \in Readers : register_again(r) /\ UNCHANGED <<busVars, authVars, recvVars, serverVars>>
    \/ \E p \in Producers, topic \in Topics :
          publish_event_call(p, topic) /\ UNCHANGED <<busVars, authVars, recvVars, serverVars>>
    \/ \E p \in Producers : publish_event_step(p) /\ UNCHANGED <<busVars, authVars, recvVars, serverVars>>
    \/ \E r \in Readers : drain_reader(r) /\ UNCHANGED <<busVars, authVars, recvVars, serverVars>>
    \/ \E r \in Readers, n \in {1, 10} : peek(r, n) /\ UNCHANGED <<busVars, authVars, recvVars, serverVars>>
    \/ \E r \in Readers : close(r) /\ UNCHANGED <<busVars, authVars, recvVars, serverVars>>
    \/ \E r \in Readers, exc_type \in {"None", "Exception"} :
          TopicReader_exit(r, exc_type) /\ UNCHANGED <<busVars, authVars, recvVars, serverVars>>

SpecBroker == InitBroker /\ [][NextBroker]_vars

====
